---- MODULE Spec2Model ----
(***************************************************************************)
(* Weblate translation model (trans/models/translation.py): the soft lock, *)
(* the synchronisation of the unit index with the backing file, the commit *)
(* pipeline and the store merge, as state machines over one project.       *)
(***************************************************************************)
EXTENDS Integers, Sequences, FiniteSets, TLC

\* ------------------------------------------------------------------ bounds
\* Most requests served in one run of the commit pipeline.
MaxRequests == 2
\* Last instant of the wall clock of the soft-lock specification.
MaxTime == 4
\* Longest configurable lock duration (LOCK_TIME, AUTO_LOCK_TIME), seconds.
MaxLockSeconds == 3
\* Most dependent rows (checks, suggestions, comments) ever recorded.
MaxRows == 2
\* Most files uploaded as suggestions.
MaxUploads == 2

\* ---------------------------------------------------------------- universe
None == "None"
Procs == {"p1", "p2"}
Users == {"alice", "bob"}
Langs == {"cs", "de"}
SubProjects == {"a", "b"}
\* One project; subproject "a" holds two languages in one repository,
\* subproject "b" is a second repository with a file of the same language.
Trans == {"a_cs", "a_de", "b_cs"}
Keys == {"k1", "k2"}
\* Target texts; 0 is the empty text.
Targets == {0, 1, 2}

language(t) == IF t = "a_de" THEN "de" ELSE "cs"
subproject(t) == IF t = "b_cs" THEN "b" ELSE "a"

\* ------------------------------------------------------------------ stores
\* A store is the ordered sequence of the entries of a file; an entry has
\* the id of its (source, context) pair, a target text and a fuzzy flag.
Entry(k, target, fuzzy) == [id |-> k, target |-> target, fuzzy |-> fuzzy]

Range(s) == {s[i] : i \in DOMAIN s}

store_ids(store) == {store[i].id : i \in DOMAIN store}

\* store.findid(id): the position of the entry with this id, 0 when absent.
findid(store, k) ==
  IF k \in store_ids(store)
  THEN CHOOSE i \in DOMAIN store :
         store[i].id = k /\ \A j \in DOMAIN store : store[j].id = k => i <= j
  ELSE 0

\* trans.util.is_translated: a target text that is not marked fuzzy.
is_translated(e) == e.target # 0 /\ ~e.fuzzy

\* ----------------------------------------------------------------- authors
FullNames == [alice |-> "", bob |-> "Bob"]
Emails == [alice |-> "alice@example.com", bob |-> "bob@example.com"]
NoAuthor == <<>>

get_author_name(user) ==
  LET full_name == IF FullNames[user] = "" THEN user ELSE FullNames[user]
  IN  <<full_name, Emails[user]>>

Authors == {get_author_name(u) : u \in Users}

VARIABLES
  LAZY_COMMITS,     \* appsettings.LAZY_COMMITS
  push_on_commit,   \* project.push_on_commit
  has_template,     \* subproject.has_template(), per subproject
  AUTO_LOCK,        \* appsettings.AUTO_LOCK
  LOCK_TIME,        \* appsettings.LOCK_TIME, seconds of an explicit lock
  AUTO_LOCK_TIME,   \* appsettings.AUTO_LOCK_TIME, seconds of an automatic lock
  prj_locked,       \* subproject.locked, per subproject
  project,          \* subproject.project, per subproject
  allow_translation_propagation,
                    \* subproject.allow_translation_propagation
  now,              \* datetime.now()
  lock_user,        \* Translation.lock_user
  lock_time,        \* Translation.lock_time
  lock_call,        \* the last call of the soft lock and what it returned
  template,         \* the template file's store at HEAD, per subproject
  work,             \* the file of each translation in the working tree
  head,             \* the file of each translation at HEAD
  writer,           \* per translation and id: who wrote the uncommitted entry
  revision,         \* Translation.revision
  units,            \* Translation.unit_set
  stats,            \* Translation.total, fuzzy, translated
  last_change,      \* user of the newest content Change of each translation
  checks,           \* Check rows of the project: (language, checksum)
  suggestions,      \* Suggestion rows of the project
  comments,         \* Comment rows of the project
  rechecked,        \* the units the last update_from_blob ran check() on
  last_call,        \* what the last update_from_blob or lock call did
  git_lock,         \* the write lock of each subproject's repository
  proc,             \* the request each process is serving
  requests,         \* the number of requests started so far
  raised            \* some operation ended by raising

\* Settings; no operation of the model changes them.
conf == <<LAZY_COMMITS, push_on_commit, has_template, AUTO_LOCK, LOCK_TIME,
          AUTO_LOCK_TIME, prj_locked, project,
          allow_translation_propagation>>
\* The soft lock of every translation and the clock it is compared with.
soft == <<now, lock_user, lock_time, lock_call>>
\* The dependent rows.
rows == <<checks, suggestions, comments, rechecked>>
\* The unit index with its counts.
index == <<units, stats>>

vars == <<conf, soft, template, work, head, writer, revision,
          index, last_change, rows, last_call, git_lock, proc, requests,
          raised>>

\* --------------------------------------------------------------- soft lock
NoLockCall == [op |-> "none", t |-> None, user |-> None, explicit |-> FALSE,
               prj_lock |-> FALSE, usr_lock |-> FALSE, own_lock |-> FALSE]

\* Translation.update_lock_time(explicit, is_new) on a lock [user, time].
update_lock_time(lock, explicit, is_new) ==
  LET seconds == IF explicit THEN LOCK_TIME ELSE AUTO_LOCK_TIME
      new_lock_time == now + seconds
  IN  IF is_new \/ new_lock_time > lock.time
      THEN [lock EXCEPT !.time = new_lock_time]
      ELSE lock

\* create_lock that takes every lock for a new one.
create_lock_new(lock, user, explicit) ==
  IF user = None THEN [user |-> None, time |-> now]
  ELSE update_lock_time([lock EXCEPT !.user = user], explicit, TRUE)

\* Translation.create_lock(user, explicit).
create_lock(lock, user, explicit) ==
  LET is_new == lock.user = None IN
  IF user = None THEN [user |-> None, time |-> now]
  ELSE update_lock_time([lock EXCEPT !.user = user], explicit, is_new)

\* is_user_locked that reports an expired lock as free and leaves it.
is_user_locked_keep(lock, user) ==
  IF lock.user = None \/ lock.time < now
  THEN [lock |-> lock, usr_lock |-> FALSE, own_lock |-> FALSE]
  ELSE IF user # None /\ lock.user = user
  THEN [lock |-> lock, usr_lock |-> FALSE, own_lock |-> TRUE]
  ELSE [lock |-> lock, usr_lock |-> TRUE, own_lock |-> FALSE]

\* Translation.is_user_locked(request, multi=True): the lock it leaves and
\* the pair (locked by another user, locked by the user of the request).
is_user_locked(lock, user) ==
  IF lock.user = None
  THEN [lock |-> lock, usr_lock |-> FALSE, own_lock |-> FALSE]
  ELSE IF lock.time < now
  THEN [lock |-> create_lock(lock, None, FALSE), usr_lock |-> FALSE,
        own_lock |-> FALSE]
  ELSE IF user # None /\ lock.user = user
  THEN [lock |-> lock, usr_lock |-> FALSE, own_lock |-> TRUE]
  ELSE [lock |-> lock, usr_lock |-> TRUE, own_lock |-> FALSE]

\* update_lock that asks whether the user of the request holds the lock.
update_lock_own(lock, user) ==
  LET checked == is_user_locked(lock, user) IN
  IF checked.own_lock THEN update_lock_time(checked.lock, FALSE, TRUE)
  ELSE IF AUTO_LOCK THEN create_lock(checked.lock, user, FALSE)
  ELSE checked.lock

\* Translation.update_lock(request): is_user_locked() is asked without a
\* request and update_lock_time() is called with its defaults.
update_lock(lock, user) ==
  LET checked == is_user_locked(lock, None) IN
  IF checked.usr_lock THEN update_lock_time(checked.lock, FALSE, TRUE)
  ELSE IF AUTO_LOCK THEN create_lock(checked.lock, user, FALSE)
  ELSE checked.lock

lock_of(t) == [user |-> lock_user[t], time |-> lock_time[t]]

\* A view asks is_locked(request, multi=True).
do_is_locked(t, user) ==
  LET checked == is_user_locked(lock_of(t), user) IN
  /\ lock_user' = [lock_user EXCEPT ![t] = checked.lock.user]
  /\ lock_time' = [lock_time EXCEPT ![t] = checked.lock.time]
  /\ lock_call' = [op |-> "is_locked", t |-> t, user |-> user,
                   explicit |-> FALSE,
                   prj_lock |-> prj_locked[subproject(t)],
                   usr_lock |-> checked.usr_lock,
                   own_lock |-> checked.own_lock]
  /\ UNCHANGED <<conf, now, template, work, head, writer, revision, index,
                 last_change, rows, last_call, git_lock, proc, requests,
                 raised>>

\* A view locks the translation for a user, or unlocks it (user None).
do_create_lock(t, user, explicit) ==
  LET lock == create_lock(lock_of(t), user, explicit) IN
  /\ lock_user' = [lock_user EXCEPT ![t] = lock.user]
  /\ lock_time' = [lock_time EXCEPT ![t] = lock.time]
  /\ lock_call' = [NoLockCall EXCEPT !.op = "create_lock", !.t = t,
                                     !.user = user, !.explicit = explicit]
  /\ UNCHANGED <<conf, now, template, work, head, writer, revision, index,
                 last_change, rows, last_call, git_lock, proc, requests,
                 raised>>

\* A user saves a unit: the lock is touched.
do_update_lock(t, user) ==
  LET lock == update_lock(lock_of(t), user) IN
  /\ lock_user' = [lock_user EXCEPT ![t] = lock.user]
  /\ lock_time' = [lock_time EXCEPT ![t] = lock.time]
  /\ lock_call' = [NoLockCall EXCEPT !.op = "update_lock", !.t = t,
                                     !.user = user]
  /\ UNCHANGED <<conf, now, template, work, head, writer, revision, index,
                 last_change, rows, last_call, git_lock, proc, requests,
                 raised>>

\* Time passes.
tick ==
  /\ now < MaxTime
  /\ now' = now + 1
  /\ UNCHANGED <<conf, lock_user, lock_time, lock_call, template, work, head,
                 writer, revision, index, last_change, rows, last_call,
                 git_lock, proc, requests, raised>>

\* ------------------------------------------------------------ repository
\* The blob id of the file alone, whether there is a template or not.
get_git_blob_hash_file_only(tree, t) == <<tree[t]>>

\* Translation.get_git_blob_hash: the blob id of the file at HEAD, joined
\* with the template's blob id when the subproject has a template.  A blob
\* id is modelled by the content it names; tree is the HEAD commit.
get_git_blob_hash(tree, t) ==
  IF has_template[subproject(t)]
  THEN <<tree[t], template[subproject(t)]>>
  ELSE <<tree[t]>>

\* store_hash that records the blob the file had before the commit.
store_hash_stale(tree, t) ==
  [revision EXCEPT ![t] = get_git_blob_hash(head, t)]

\* Lines 595-601: store_hash, the revision table after self.save().
store_hash(tree, t) == [revision EXCEPT ![t] = get_git_blob_hash(tree, t)]

\* Translation.git_needs_commit: git status reports the file as modified.
git_needs_commit(t) == work[t] # head[t]

\* The entry (if any) a store holds for an id, as a set of at most one.
entry_of(store, k) == {store[i] : i \in {j \in DOMAIN store : store[j].id = k}}

\* Authors of the entries of the working tree that differ from HEAD.
pending_authors(t) == {writer[t][k] : k \in Keys} \ {NoAuthor}

\* ------------------------------------------------------------- write lock
\* SubProject.get_git_lock(): one lock per repository; a holder may enter
\* it again and leaves it once for every time it entered.
FreeLock == [holder |-> None, depth |-> 0]

can_acquire(p, sp) == git_lock[sp].holder \in {None, p}

acquired(p, sp) ==
  [git_lock EXCEPT ![sp] = [holder |-> p, depth |-> @.depth + 1]]

released(p, sp) ==
  [git_lock EXCEPT ![sp] =
     IF @.depth <= 1 THEN FreeLock ELSE [holder |-> p, depth |-> @.depth - 1]]

holds_lock(p, sp) == git_lock[sp].holder = p

\* ------------------------------------------------------- update_from_blob
HeaderKey == "hdr"
isheader(e) == e.id = HeaderKey
\* trans.util.is_translatable: every entry but the header.
is_translatable(e) == ~isheader(e)

\* Unit.objects.update_from_unit(translation, unit, pos, template): the
\* unit of this translation with the entry's checksum, created or
\* refreshed; found holds the file's entry, or nothing when the template's
\* id is absent from the file.
update_from_unit(k, pos, found) ==
  LET target == IF found = {} THEN 0 ELSE (CHOOSE e \in found : TRUE).target
      fuzzy == IF found = {} THEN FALSE
               ELSE (CHOOSE e \in found : TRUE).fuzzy
  IN  [checksum |-> k, position |-> pos, target |-> target, fuzzy |-> fuzzy,
       translated |-> target # 0 /\ ~fuzzy]

\* The loops without their test of is_translatable.
iterated_all(store, sp) ==
  IF has_template[sp] THEN template[sp] ELSE store

\* Lines 437-470: the entries the loop iterates, in order: the template's
\* translatable entries when there is a template, else the file's.
iterated(store, sp) ==
  IF has_template[sp] THEN SelectSeq(template[sp], is_translatable)
  ELSE SelectSeq(store, is_translatable)

\* The units the loop leaves for a file; pos counts the iterated entries.
synced_units(store, sp) ==
  LET it == iterated(store, sp) IN
  {update_from_unit(it[i].id, i,
                    IF has_template[sp] THEN entry_of(store, it[i].id)
                    ELSE {it[i]}) : i \in DOMAIN it}

checksums(us) == {u.checksum : u \in us}

\* The cheap path comparing the revision with the blob of the file alone.
up_to_date_file_only(t, force) == revision[t] = <<head[t]>> /\ ~force

\* Lines 414-430: the cheap path, nothing to do.
up_to_date(t, force) == revision[t] = get_git_blob_hash(head, t) /\ ~force

\* Lines 484-489: translations of this language, in the project, that
\* still hold a unit with the checksum.
lang_refs(us, t, c) ==
  {t2 \in Trans : language(t2) = language(t) /\ c \in checksums(us[t2])}

\* Lines 509-513: translations of any language that still hold one.
other_refs(us, t, c) == {t2 \in Trans : c \in checksums(us[t2])}

\* A row of the checks, suggestions or comments table; language None is a
\* source-level row.
Row(lang, c) == [language |-> lang, checksum |-> c]

\* Cleanup that looks for references before the units were deleted.
gone_rows_before(us, t, deleted) ==
  {Row(language(t), c) : c \in {d \in deleted : lang_refs(units, t, d) = {}}}

\* Lines 491-507: the rows of this language removed for deleted checksums.
gone_rows(us, t, deleted) ==
  {Row(language(t), c) : c \in {d \in deleted : lang_refs(us, t, d) = {}}}

\* Cleanup of source rows that does not look at the other languages.
gone_source_rows_eager(us, t, deleted) ==
  {Row(None, c) : c \in {d \in deleted : lang_refs(us, t, d) = {}}}

\* Lines 514-525: the source rows removed for deleted checksums.
gone_source_rows(us, t, deleted) ==
  {Row(None, c) : c \in {d \in deleted : lang_refs(us, t, d) = {}
                                          /\ other_refs(us, t, d) = {}}}

\* update_stats that takes every unit with a text for a translated one.
counted_texts(us) ==
  [total |-> Cardinality(us),
   fuzzy |-> Cardinality({u \in us : u.fuzzy}),
   translated |-> Cardinality({u \in us : u.target # 0})]

\* Lines 280-281: get_non_translated, of the counts of a translation.
get_non_translated(st) == st.total - st.translated

\* Lines 585-593: update_stats.
counted(us) ==
  [total |-> Cardinality(us),
   fuzzy |-> Cardinality({u \in us : u.fuzzy}),
   translated |-> Cardinality({u \in us : u.translated})]

\* What a call did: wrote says that it changed the database, deleted holds
\* its deleted_checksums and removed the dependent rows it deleted.
NoCall == [op |-> "none", t |-> None, user |-> None, wrote |-> FALSE,
           notified |-> FALSE, deleted |-> {}, removed |-> {}]

\* update_from_blob with was_new set by every unit it creates.
update_from_blob_any_new(t, force, user, store) ==
  LET newunits == synced_units(store, subproject(t))
      was_new == \E u \in newunits :
                   u.checksum \notin checksums(units[t])
      deleted_checksums == checksums(units[t]) \ checksums(newunits)
      us == [units EXCEPT ![t] = newunits]
  IN
  IF up_to_date(t, force)
  THEN /\ last_call' = [NoCall EXCEPT !.op = "update_from_blob", !.t = t,
                                        !.user = user]
       /\ UNCHANGED <<revision, index, rows>>
  ELSE /\ units' = us
       /\ checks' = (checks \ gone_rows(us, t, deleted_checksums))
                      \ gone_source_rows(us, t, deleted_checksums)
       /\ suggestions' =
            {row \in suggestions :
               Row(row.language, row.checksum)
                 \notin gone_rows(us, t, deleted_checksums)}
       /\ comments' = (comments \ gone_rows(us, t, deleted_checksums))
                        \ gone_source_rows(us, t, deleted_checksums)
       /\ rechecked' = {<<t2, c>> \in Trans \X deleted_checksums :
                          t2 \in lang_refs(us, t, c)}
       /\ stats' = [stats EXCEPT ![t] = counted(newunits)]
       /\ revision' = store_hash(head, t)
       /\ last_call' = [op |-> "update_from_blob", t |-> t, user |-> user,
                        wrote |-> TRUE, notified |-> was_new,
                        deleted |-> deleted_checksums,
                        removed |-> (checks \cup suggestions \cup comments)
                                      \ (checks' \cup suggestions'
                                           \cup comments')]

\* Translation.update_from_blob(force, request) reading the file as store.
update_from_blob(t, force, user, store) ==
  LET newunits == synced_units(store, subproject(t))
      was_new == \E u \in newunits :
                   u.checksum \notin checksums(units[t]) /\ ~u.translated
      deleted_checksums == checksums(units[t]) \ checksums(newunits)
      us == [units EXCEPT ![t] = newunits]
  IN
  IF up_to_date(t, force)
  THEN /\ last_call' = [NoCall EXCEPT !.op = "update_from_blob", !.t = t,
                                        !.user = user]
       /\ UNCHANGED <<revision, index, rows>>
  ELSE /\ units' = us
       /\ checks' = (checks \ gone_rows(us, t, deleted_checksums))
                      \ gone_source_rows(us, t, deleted_checksums)
       /\ suggestions' =
            {row \in suggestions :
               Row(row.language, row.checksum)
                 \notin gone_rows(us, t, deleted_checksums)}
       /\ comments' = (comments \ gone_rows(us, t, deleted_checksums))
                        \ gone_source_rows(us, t, deleted_checksums)
       /\ rechecked' = {<<t2, c>> \in Trans \X deleted_checksums :
                          t2 \in lang_refs(us, t, c)}
       /\ stats' = [stats EXCEPT ![t] = counted(newunits)]
       /\ revision' = store_hash(head, t)
       /\ last_call' = [op |-> "update_from_blob", t |-> t, user |-> user,
                        wrote |-> TRUE, notified |-> was_new,
                        deleted |-> deleted_checksums,
                        removed |-> (checks \cup suggestions \cup comments)
                                      \ (checks' \cup suggestions'
                                           \cup comments')]

\* --------------------------------------------------------------- requests
Idle ==
  [pc |-> "idle", op |-> "none", t |-> "a_cs", user |-> None,
   author |-> NoAuthor, key |-> "k1", target |-> 0, fuzzy |-> FALSE,
   store |-> <<>>, need_save |-> FALSE, found |-> FALSE,
   gc_author |-> NoAuthor, force |-> FALSE, sync |-> FALSE,
   skip_push |-> FALSE, ret_to |-> "done", gc_ret |-> FALSE, ret |-> FALSE,
   needs |-> FALSE, made |-> 0, mixed |-> FALSE, attempts |-> 0, pushed |-> FALSE,
   outcome |-> "none", origin |-> "a_cs", method |-> "", overwrite |-> FALSE,
   upload |-> <<>>, todo |-> {}, up_ret |-> FALSE, calls |-> {},
   suggested |-> {}, notified |-> {}, request_method |-> "POST"]

\* The frame of a call of git_commit(author, timestamp, force_commit, sync,
\* skip_push) that continues at ret_to when it returns.
call_git_commit(r, author, force, sync, skip_push, ret_to) ==
  [r EXCEPT !.pc = "gc_check", !.gc_author = author, !.force = force,
            !.sync = sync, !.skip_push = skip_push, !.ret_to = ret_to,
            !.attempts = 0]

\* git_commit returns a value to the code that called it.
gc_return(r, value) ==
  IF r.op = "git_commit"
  THEN [r EXCEPT !.pc = "done", !.gc_ret = value, !.ret = value,
                 !.outcome = "returned"]
  ELSE [r EXCEPT !.pc = r.ret_to, !.gc_ret = value,
                 !.gc_author = NoAuthor, !.force = FALSE, !.sync = FALSE,
                 !.skip_push = FALSE, !.ret_to = "done", !.needs = FALSE]

Others(p) == Procs \ {p}

\* --------------------------------------------------------------- git_commit
\* A request calls git_commit directly.
start_git_commit(p, TT, SY, SK, limit) ==
  /\ proc[p].pc = "idle"
  /\ requests < limit
  /\ requests' = requests + 1
  /\ \E t \in TT, u \in Users, force \in BOOLEAN, sync \in SY,
        skip_push \in SK :
       proc' = [proc EXCEPT ![p] =
                  call_git_commit([Idle EXCEPT !.op = "git_commit", !.t = t,
                                               !.user = u],
                                  get_author_name(u), force, sync, skip_push,
                                  "done")]
  /\ UNCHANGED <<conf, soft, template, work, head, writer, revision, index,
                 last_change, rows, last_call, git_lock, raised>>

\* git_commit that does not look at LAZY_COMMITS.
git_commit_check_eager(p) ==
  LET r == proc[p] IN
  /\ r.pc = "gc_check"
  /\ proc' = [proc EXCEPT ![p] =
       IF ~git_needs_commit(r.t) THEN gc_return(r, FALSE)
       ELSE [r EXCEPT !.pc = "gc_lock", !.needs = TRUE]]
  /\ UNCHANGED <<conf, soft, template, work, head, writer, revision, index,
                 last_change, rows, last_call, git_lock, requests, raised>>

\* git_commit that skips the look at the file when the commit is forced.
git_commit_check_forced(p) ==
  LET r == proc[p] IN
  /\ r.pc = "gc_check"
  /\ proc' = [proc EXCEPT ![p] =
       IF ~git_needs_commit(r.t) /\ ~r.force THEN gc_return(r, FALSE)
       ELSE IF ~r.force /\ LAZY_COMMITS
       THEN gc_return([r EXCEPT !.needs = TRUE], FALSE)
       ELSE [r EXCEPT !.pc = "gc_lock", !.needs = TRUE]]
  /\ UNCHANGED <<conf, soft, template, work, head, writer, revision, index,
                 last_change, rows, last_call, git_lock, requests, raised>>

\* git_commit that leaves the file alone while a user holds the soft lock.
git_commit_check_unlocked(p) ==
  LET r == proc[p] IN
  /\ r.pc = "gc_check"
  /\ proc' = [proc EXCEPT ![p] =
       IF ~git_needs_commit(r.t) \/ lock_user[r.t] # None
       THEN gc_return(r, FALSE)
       ELSE IF ~r.force /\ LAZY_COMMITS
       THEN gc_return([r EXCEPT !.needs = TRUE], FALSE)
       ELSE [r EXCEPT !.pc = "gc_lock", !.needs = TRUE]]
  /\ UNCHANGED <<conf, soft, template, work, head, writer, revision, index,
                 last_change, rows, last_call, git_lock, requests, raised>>

\* Lines 760-772: nothing to commit, or the commit can be delayed.
git_commit_check(p) ==
  LET r == proc[p] IN
  /\ r.pc = "gc_check"
  /\ proc' = [proc EXCEPT ![p] =
       IF ~git_needs_commit(r.t) THEN gc_return(r, FALSE)
       ELSE IF ~r.force /\ LAZY_COMMITS
       THEN gc_return([r EXCEPT !.needs = TRUE], FALSE)
       ELSE [r EXCEPT !.pc = "gc_lock", !.needs = TRUE]]
  /\ UNCHANGED <<conf, soft, template, work, head, writer, revision, index,
                 last_change, rows, last_call, git_lock, requests, raised>>

\* git_commit that waits until nobody holds the lock, itself included.
git_commit_lock_free(p) ==
  LET r == proc[p] IN
  /\ r.pc = "gc_lock"
  /\ git_lock[subproject(r.t)].holder = None
  /\ git_lock' = acquired(p, subproject(r.t))
  /\ proc' = [proc EXCEPT ![p] = [r EXCEPT !.pc = "gc_try1"]]
  /\ UNCHANGED <<conf, soft, template, work, head, writer, revision, index,
                 last_change, rows, last_call, requests, raised>>

\* Line 776: with self.subproject.get_git_lock().
git_commit_lock(p) ==
  LET r == proc[p] IN
  /\ r.pc = "gc_lock"
  /\ can_acquire(p, subproject(r.t))
  /\ git_lock' = acquired(p, subproject(r.t))
  /\ proc' = [proc EXCEPT ![p] = [r EXCEPT !.pc = "gc_try1"]]
  /\ UNCHANGED <<conf, soft, template, work, head, writer, revision, index,
                 last_change, rows, last_call, requests, raised>>

\* __git_commit succeeds: git commits the file as it is in the working
\* tree and, with sync, store_hash records the new blob hash.
git_commit_commit(p) ==
  LET r == proc[p]
      t == r.t
      committed == [head EXCEPT ![t] = work[t]]
  IN
  /\ r.pc \in {"gc_try1", "gc_try2"}
  /\ git_needs_commit(t)
  /\ head' = committed
  /\ writer' = [writer EXCEPT ![t] = [k \in Keys |-> NoAuthor]]
  /\ revision' = IF r.sync THEN store_hash(committed, t) ELSE revision
  /\ proc' = [proc EXCEPT ![p] =
                [r EXCEPT !.pc = "gc_unlock", !.made = @ + 1,
                          !.mixed = @ \/ ~(pending_authors(t)
                                             \subseteq {r.gc_author}),
                          !.attempts = @ + 1]]
  /\ UNCHANGED <<conf, soft, template, work, index, last_change, rows,
                 last_call, git_lock, requests, raised>>

\* A git_commit with no except clause: the first GitCommandError leaves
\* the with block as an exception.
git_commit_fail_once(p) ==
  LET r == proc[p] IN
  /\ r.pc \in {"gc_try1", "gc_try2"}
  /\ proc' = [proc EXCEPT ![p] =
                [r EXCEPT !.pc = "gc_raise", !.attempts = @ + 1]]
  /\ UNCHANGED <<conf, soft, template, work, head, writer, revision, index,
                 last_change, rows, last_call, git_lock, requests, raised>>

\* __git_commit raises GitCommandError: git refuses a commit that changes
\* nothing, and any attempt may fail while another git command runs.  The
\* first failure is retried after sleep_while_git_locked, the second one
\* leaves the with block as an exception.
git_commit_fail(p) ==
  LET r == proc[p] IN
  /\ r.pc \in {"gc_try1", "gc_try2"}
  /\ proc' = [proc EXCEPT ![p] =
                [r EXCEPT !.pc = IF r.pc = "gc_try1" THEN "gc_try2"
                                 ELSE "gc_raise",
                          !.attempts = @ + 1]]
  /\ UNCHANGED <<conf, soft, template, work, head, writer, revision, index,
                 last_change, rows, last_call, git_lock, requests, raised>>

\* The with block of git_commit is left normally.
git_commit_unlock(p) ==
  LET r == proc[p] IN
  /\ r.pc = "gc_unlock"
  /\ git_lock' = released(p, subproject(r.t))
  /\ proc' = [proc EXCEPT ![p] = [r EXCEPT !.pc = "gc_push"]]
  /\ UNCHANGED <<conf, soft, template, work, head, writer, revision, index,
                 last_change, rows, last_call, requests, raised>>

\* Lines 785-789: push if the project asks for it, then return True.
git_commit_push(p) ==
  LET r == proc[p]
      do_push == push_on_commit /\ ~r.skip_push
  IN
  /\ r.pc = "gc_push"
  /\ proc' = [proc EXCEPT ![p] =
                gc_return([r EXCEPT !.pushed = @ \/ do_push], TRUE)]
  /\ UNCHANGED <<conf, soft, template, work, head, writer, revision, index,
                 last_change, rows, last_call, git_lock, requests, raised>>

\* The second GitCommandError goes on to the caller with the lock held.
git_commit_raise_held(p) ==
  LET r == proc[p] IN
  /\ r.pc = "gc_raise"
  /\ raised' = TRUE
  /\ proc' = [proc EXCEPT ![p] =
                IF r.op = "git_commit"
                THEN [r EXCEPT !.pc = "done", !.outcome = "raised"]
                ELSE [r EXCEPT !.pc = "outer_raise"]]
  /\ UNCHANGED <<conf, soft, template, work, head, writer, revision, index,
                 last_change, rows, last_call, git_lock, requests>>

\* The second GitCommandError leaves the with block of git_commit, which
\* releases the lock, and goes on to the caller.
git_commit_raise(p) ==
  LET r == proc[p] IN
  /\ r.pc = "gc_raise"
  /\ git_lock' = released(p, subproject(r.t))
  /\ raised' = TRUE
  /\ proc' = [proc EXCEPT ![p] =
                IF r.op = "git_commit"
                THEN [r EXCEPT !.pc = "done", !.outcome = "raised"]
                ELSE [r EXCEPT !.pc = "outer_raise"]]
  /\ UNCHANGED <<conf, soft, template, work, head, writer, revision, index,
                 last_change, rows, last_call, requests>>

\* A merge_upload that catches the exception of a sibling and goes on with
\* the next one.
outer_raise_caught(p) ==
  LET r == proc[p] IN
  /\ r.pc = "outer_raise"
  /\ git_lock' = released(p, subproject(r.t))
  /\ proc' = [proc EXCEPT ![p] =
                IF r.op = "merge_upload" THEN [r EXCEPT !.pc = "mu_next"]
                ELSE [r EXCEPT !.pc = "done", !.outcome = "raised"]]
  /\ UNCHANGED <<conf, soft, template, work, head, writer, revision, index,
                 last_change, rows, last_call, requests, raised>>

\* The exception leaves the with block of update_unit or merge_store.
outer_raise(p) ==
  LET r == proc[p] IN
  /\ r.pc = "outer_raise"
  /\ git_lock' = released(p, subproject(r.t))
  /\ proc' = [proc EXCEPT ![p] = [r EXCEPT !.pc = "done",
                                           !.outcome = "raised"]]
  /\ UNCHANGED <<conf, soft, template, work, head, writer, revision, index,
                 last_change, rows, last_call, requests, raised>>

\* ------------------------------------------------------------ commit_pending
\* Translation.get_last_author: the author of the newest content change.
get_last_author(t) ==
  IF last_change[t] = None THEN NoAuthor ELSE get_author_name(last_change[t])

\* commit_pending(author) called by a frame that continues at ret_to:
\* nothing to do for the same author or no author, else a forced commit,
\* with sync, under the last author.
commit_pending(r, author, ret_to) ==
  LET last == get_last_author(r.t) IN
  IF author = last \/ last = NoAuthor THEN [r EXCEPT !.pc = ret_to]
  ELSE call_git_commit(r, last, TRUE, TRUE, FALSE, ret_to)

\* store.save() by author: who wrote each entry that now differs from HEAD.
saved_writer(t, store, author) ==
  [k \in Keys |->
     IF entry_of(store, k) = entry_of(head[t], k) THEN NoAuthor
     ELSE IF entry_of(store, k) # entry_of(work[t], k) THEN author
     ELSE writer[t][k]]

\* --------------------------------------------------------------- update_unit
\* Lines 804-834: the entry of the file for the unit; with a template the
\* lookup is by id and falls back on the template's entry, to be added.
find_pounit(store, sp, k) ==
  IF has_template[sp]
  THEN IF findid(store, k) # 0
       THEN [found |-> TRUE, add |-> FALSE, unit |-> entry_of(store, k)]
       ELSE [found |-> findid(template[sp], k) # 0, add |-> TRUE,
             unit |-> entry_of(template[sp], k)]
  ELSE [found |-> findid(store, k) # 0, add |-> FALSE,
        unit |-> entry_of(store, k)]

\* Lines 837-853: is there a change to store.
unit_differs(pounit, target, fuzzy) ==
  \E e \in pounit : target # e.target \/ fuzzy # e.fuzzy

\* Lines 839-851: settarget, markfuzzy and, for a template entry, addunit.
updated_store(store, k, target, fuzzy, add) ==
  IF add THEN Append(store, Entry(k, target, fuzzy))
  ELSE [i \in DOMAIN store |->
          IF store[i].id = k THEN Entry(k, target, fuzzy) ELSE store[i]]

\* A request saves a unit the user edited.
start_update_unit(p, TT, VV, FF, limit) ==
  /\ proc[p].pc = "idle"
  /\ requests < limit
  /\ requests' = requests + 1
  /\ \E t \in TT, u \in Users, k \in Keys, target \in VV, fuzzy \in FF :
       proc' = [proc EXCEPT ![p] =
                  [Idle EXCEPT !.pc = "uu_lock", !.op = "update_unit",
                               !.t = t, !.user = u,
                               !.author = get_author_name(u), !.key = k,
                               !.target = target, !.fuzzy = fuzzy]]
  /\ UNCHANGED <<conf, soft, template, work, head, writer, revision, index,
                 last_change, rows, last_call, git_lock, raised>>

\* update_unit without its with block: it goes on without the lock.
update_unit_lock_bare(p) ==
  LET r == proc[p] IN
  /\ r.pc = "uu_lock"
  /\ proc' = [proc EXCEPT ![p] = [r EXCEPT !.pc = "uu_find"]]
  /\ UNCHANGED <<conf, soft, template, work, head, writer, revision, index,
                 last_change, rows, last_call, git_lock, requests, raised>>

\* Line 796: with self.subproject.get_git_lock().
update_unit_lock(p) ==
  LET r == proc[p] IN
  /\ r.pc = "uu_lock"
  /\ can_acquire(p, subproject(r.t))
  /\ git_lock' = acquired(p, subproject(r.t))
  /\ proc' = [proc EXCEPT ![p] = [r EXCEPT !.pc = "uu_find"]]
  /\ UNCHANGED <<conf, soft, template, work, head, writer, revision, index,
                 last_change, rows, last_call, requests, raised>>

\* Lines 798-888: load the file, find the entry, change it in memory.
update_unit_find(p) ==
  LET r == proc[p]
      store == work[r.t]
      f == find_pounit(store, subproject(r.t), r.key)
      need_save == f.found /\ unit_differs(f.unit, r.target, r.fuzzy)
  IN
  /\ r.pc = "uu_find"
  /\ proc' = [proc EXCEPT ![p] =
       IF ~f.found
       THEN [r EXCEPT !.pc = "uu_unlock", !.found = FALSE,
                      !.need_save = FALSE, !.key = Idle.key,
                      !.target = 0, !.fuzzy = FALSE]
       ELSE IF ~need_save
       THEN [r EXCEPT !.pc = "uu_unlock", !.found = TRUE,
                      !.need_save = FALSE, !.key = Idle.key,
                      !.target = 0, !.fuzzy = FALSE]
       ELSE [r EXCEPT !.pc = "uu_pending", !.found = TRUE,
                      !.need_save = TRUE, !.key = Idle.key,
                      !.target = 0, !.fuzzy = FALSE,
                      !.store = updated_store(store, r.key, r.target,
                                              r.fuzzy, f.add)]]
  /\ UNCHANGED <<conf, soft, template, work, head, writer, revision, index,
                 last_change, rows, last_call, git_lock, requests, raised>>

\* Line 890: commit possible previous changes (by other author).
update_unit_pending(p) ==
  LET r == proc[p] IN
  /\ r.pc = "uu_pending"
  /\ proc' = [proc EXCEPT ![p] = commit_pending(r, r.author, "uu_save")]
  /\ UNCHANGED <<conf, soft, template, work, head, writer, revision, index,
                 last_change, rows, last_call, git_lock, requests, raised>>

\* Lines 892-894: store.save(), then git_commit(author, now, sync=True).
update_unit_save(p) ==
  LET r == proc[p] IN
  /\ r.pc = "uu_save"
  /\ work' = [work EXCEPT ![r.t] = r.store]
  /\ writer' = [writer EXCEPT ![r.t] = saved_writer(r.t, r.store, r.author)]
  /\ proc' = [proc EXCEPT ![p] =
                call_git_commit(r, r.author, FALSE, TRUE, FALSE,
                                "uu_unlock")]
  /\ UNCHANGED <<conf, soft, template, head, revision, index, last_change,
                 rows, last_call, git_lock, requests, raised>>

\* The with block of update_unit is left; line 834 or 896 returns.
update_unit_unlock(p) ==
  LET r == proc[p] IN
  /\ r.pc = "uu_unlock"
  /\ git_lock' = released(p, subproject(r.t))
  /\ proc' = [proc EXCEPT ![p] =
                [r EXCEPT !.pc = IF r.need_save THEN "uu_change" ELSE "done",
                          !.ret = r.need_save, !.outcome = "returned"]]
  /\ UNCHANGED <<conf, soft, template, work, head, writer, revision, index,
                 last_change, rows, last_call, requests, raised>>

\* The caller of update_unit records the content change of its user once
\* the unit was saved.
record_change(p) ==
  LET r == proc[p] IN
  /\ r.pc = "uu_change"
  /\ last_change' = [last_change EXCEPT ![r.t] = r.user]
  /\ proc' = [proc EXCEPT ![p] = [r EXCEPT !.pc = "done"]]
  /\ UNCHANGED <<conf, soft, template, work, head, writer, revision, index,
                 rows, last_call, git_lock, requests, raised>>

\* --------------------------------------------------------------- merge_store
\* The loop without the test of lines 1020-1022: it always overwrites.
RECURSIVE merge_units_always(_, _, _, _, _)
merge_units_always(store1, store2, i, overwrite, add_fuzzy) ==
  IF i > Len(store2) THEN store1
  ELSE
    LET unit2 == store2[i]
        j == findid(store1, unit2.id)
        merged ==
          IF ~is_translated(unit2) \/ isheader(unit2) \/ j = 0 THEN store1
          ELSE [store1 EXCEPT ![j] =
                  Entry(unit2.id, unit2.target,
                        IF add_fuzzy THEN TRUE ELSE unit2.fuzzy)]
    IN  merge_units_always(merged, store2, i + 1, overwrite, add_fuzzy)

\* The loop without lines 1027-1029: it never marks a merged unit fuzzy.
RECURSIVE merge_units_unmarked(_, _, _, _, _)
merge_units_unmarked(store1, store2, i, overwrite, add_fuzzy) ==
  IF i > Len(store2) THEN store1
  ELSE
    LET unit2 == store2[i]
        j == findid(store1, unit2.id)
        merged ==
          IF \/ ~is_translated(unit2) \/ isheader(unit2) \/ j = 0
             \/ (~overwrite /\ is_translated(store1[j]))
          THEN store1
          ELSE [store1 EXCEPT ![j] = Entry(unit2.id, unit2.target, unit2.fuzzy)]
    IN  merge_units_unmarked(merged, store2, i + 1, overwrite, add_fuzzy)

\* Lines 998-1029: the loop over the units of store2, from unit i on.
RECURSIVE merge_units(_, _, _, _, _)
merge_units(store1, store2, i, overwrite, add_fuzzy) ==
  IF i > Len(store2) THEN store1
  ELSE
    LET unit2 == store2[i]
        j == findid(store1, unit2.id)
        merged ==
          IF ~is_translated(unit2) THEN store1
          ELSE IF isheader(unit2) THEN store1
          ELSE IF j = 0 THEN store1
          ELSE IF ~overwrite /\ is_translated(store1[j]) THEN store1
          ELSE [store1 EXCEPT ![j] =
                  Entry(unit2.id, unit2.target,
                        IF add_fuzzy THEN TRUE ELSE unit2.fuzzy)]
    IN  merge_units(merged, store2, i + 1, overwrite, add_fuzzy)

\* The stores an upload may hold.
UploadStores(VV) ==
  {<<Entry(k, v, FALSE)>> : k \in Keys, v \in VV}
    \cup {<<Entry("k1", 1, FALSE), Entry("k2", 1, FALSE)>>}

\* An upload is merged into a translation.
start_merge_store(p, TT, limit) ==
  /\ proc[p].pc = "idle"
  /\ requests < limit
  /\ requests' = requests + 1
  /\ \E t \in TT, u \in Users :
       proc' = [proc EXCEPT ![p] =
                  [Idle EXCEPT !.pc = "ms_lock", !.op = "merge_store",
                               !.t = t, !.user = u,
                               !.author = get_author_name(u)]]
  /\ UNCHANGED <<conf, soft, template, work, head, writer, revision, index,
                 last_change, rows, last_call, git_lock, raised>>

\* Line 993: with self.subproject.get_git_lock().
merge_store_lock(p) ==
  LET r == proc[p] IN
  /\ r.pc = "ms_lock"
  /\ can_acquire(p, subproject(r.t))
  /\ git_lock' = acquired(p, subproject(r.t))
  /\ proc' = [proc EXCEPT ![p] = [r EXCEPT !.pc = "ms_merge"]]
  /\ UNCHANGED <<conf, soft, template, work, head, writer, revision, index,
                 last_change, rows, last_call, requests, raised>>

\* Lines 995-1029: load the file and merge store2 into it, in memory;
\* need_save remembers that the merge changed a unit.
merge_store_merge(p, SS, AF) ==
  LET r == proc[p] IN
  /\ r.pc = "ms_merge"
  /\ \E store2 \in SS, overwrite \in BOOLEAN, add_fuzzy \in AF :
       LET store1 == merge_units(work[r.t], store2, 1, overwrite, add_fuzzy)
       IN  proc' = [proc EXCEPT ![p] =
                      [r EXCEPT !.pc = "ms_pending", !.store = store1,
                                !.need_save = (store1 # work[r.t])]]
  /\ UNCHANGED <<conf, soft, template, work, head, writer, revision, index,
                 last_change, rows, last_call, git_lock, requests, raised>>

\* Line 1032: self.commit_pending(author).
merge_store_pending(p) ==
  LET r == proc[p] IN
  /\ r.pc = "ms_pending"
  /\ proc' = [proc EXCEPT ![p] = commit_pending(r, r.author, "ms_save")]
  /\ UNCHANGED <<conf, soft, template, work, head, writer, revision, index,
                 last_change, rows, last_call, git_lock, requests, raised>>

\* Lines 1033-1034: store1.save(), then git_commit(author, now, True).
merge_store_save(p) ==
  LET r == proc[p] IN
  /\ r.pc = "ms_save"
  /\ work' = [work EXCEPT ![r.t] = r.store]
  /\ writer' = [writer EXCEPT ![r.t] = saved_writer(r.t, r.store, r.author)]
  /\ proc' = [proc EXCEPT ![p] =
                call_git_commit(r, r.author, TRUE, FALSE, FALSE, "ms_sync")]
  /\ UNCHANGED <<conf, soft, template, head, revision, index, last_change,
                 rows, last_call, git_lock, requests, raised>>

\* Line 1035: self.check_sync(), on the store held in memory.
merge_store_sync(p) ==
  LET r == proc[p] IN
  /\ r.pc = "ms_sync"
  /\ update_from_blob(r.t, FALSE, None, r.store)
  /\ proc' = [proc EXCEPT ![p] = [r EXCEPT !.pc = "ms_unlock",
                                           !.ret = r.gc_ret]]
  /\ UNCHANGED <<conf, soft, template, work, head, writer, last_change,
                 git_lock, requests, raised>>

\* Line 1104 with the result of the last sibling alone: ret = merge_store().
merge_upload_ret_last(ret, result) == result

\* Line 1104: ret |= translation.merge_store(...).
merge_upload_ret(ret, result) == ret \/ result

\* merge_store returns ret to the request, or to the loop of merge_upload
\* that called it; calls remembers the call, whether its merge changed a
\* unit, and its result.
ms_return(r) ==
  IF r.op = "merge_upload"
  THEN [r EXCEPT !.pc = "mu_next",
                 !.up_ret = merge_upload_ret(r.up_ret, r.ret),
                 !.calls = r.calls \cup {[t |-> r.t, changed |-> r.need_save,
                                          ret |-> r.ret]}]
  ELSE [r EXCEPT !.pc = "done", !.outcome = "returned"]

\* The with block of merge_store is left; line 1037 returns ret.
merge_store_unlock(p) ==
  LET r == proc[p] IN
  /\ r.pc = "ms_unlock"
  /\ git_lock' = released(p, subproject(r.t))
  /\ proc' = [proc EXCEPT ![p] = ms_return(r)]
  /\ UNCHANGED <<conf, soft, template, work, head, writer, revision, index,
                 last_change, rows, last_call, requests, raised>>

\* ------------------------------------------------------------ merge_upload
MergeMethods == {"", "fuzzy"}

\* Lines 1091-1098 with the filter on the propagation flag alone.
translations_propagated(t) ==
  {o \in Trans : /\ language(o) = language(t)
                 /\ project[subproject(o)] = project[subproject(t)]
                 /\ allow_translation_propagation[subproject(o)]}

\* Lines 1091-1098: the translations of the language in the project that
\* are this one or belong to a subproject that propagates translations.
translations(t) ==
  {o \in Trans : /\ language(o) = language(t)
                 /\ project[subproject(o)] = project[subproject(t)]
                 /\ o = t \/ allow_translation_propagation[subproject(o)]}

\* A Suggestion row as Suggestion.objects.create makes it, pk its key.
Suggestion(target, checksum, lang, prj, user, pk) ==
  [language |-> lang, checksum |-> checksum, target |-> target,
   project |-> prj, user |-> user, pk |-> pk]

\* The key the database gives the next row of a table.
RECURSIVE max_pk(_)
max_pk(table) ==
  IF table = {} THEN 0
  ELSE LET row == CHOOSE x \in table : TRUE
           rest == max_pk(table \ {row})
           pk == IF "pk" \in DOMAIN row THEN row.pk ELSE 0
       IN  IF pk > rest THEN pk ELSE rest

\* Lines 1045-1067 with a lookup before the create: no second row for a
\* language and checksum that has one.
RECURSIVE suggestion_rows_unique(_, _, _, _, _, _)
suggestion_rows_unique(table, store, i, lang, prj, user) ==
  IF i > Len(store) THEN table
  ELSE
    LET unit == store[i]
        added ==
          IF \/ isheader(unit) \/ ~is_translated(unit)
             \/ \E row \in table : /\ row.language = lang
                                    /\ row.checksum = unit.id
          THEN table
          ELSE table \cup {Suggestion(unit.target, unit.id, lang, prj, user,
                                      max_pk(table) + 1)}
    IN  suggestion_rows_unique(added, store, i + 1, lang, prj, user)

\* Lines 1045-1067: the loop of merge_suggestions over the units of the
\* store, from unit i on; the checksum of a unit is its id.
RECURSIVE suggestion_rows(_, _, _, _, _, _)
suggestion_rows(table, store, i, lang, prj, user) ==
  IF i > Len(store) THEN table
  ELSE
    LET unit == store[i]
        added ==
          IF isheader(unit) \/ ~is_translated(unit) THEN table
          ELSE table \cup {Suggestion(unit.target, unit.id, lang, prj, user,
                                      max_pk(table) + 1)}
    IN  suggestion_rows(added, store, i + 1, lang, prj, user)

\* upload_translation that asks is_locked() without the request: the lock
\* of the uploader denies the upload as the lock of anybody else does.
upload_translation_anonymous(p, TT, MM, SS, HM, limit) ==
  /\ proc[p].pc = "idle"
  /\ requests < limit
  /\ requests' = requests + 1
  /\ \E t \in TT, u \in Users, method \in MM, overwrite \in BOOLEAN,
        store \in SS, http \in HM :
       LET checked == is_user_locked(lock_of(t), None)
           denied == \/ prj_locked[subproject(t)] \/ checked.usr_lock
                     \/ http # "POST"
           r == [Idle EXCEPT !.op = "merge_upload", !.t = t, !.origin = t,
                             !.user = u, !.author = get_author_name(u),
                             !.method = method, !.overwrite = overwrite,
                             !.upload = store, !.request_method = http]
       IN  /\ lock_user' = [lock_user EXCEPT ![t] = checked.lock.user]
           /\ lock_time' = [lock_time EXCEPT ![t] = checked.lock.time]
           /\ proc' = [proc EXCEPT ![p] =
                         IF denied
                         THEN [r EXCEPT !.pc = "done", !.outcome = "denied"]
                         ELSE IF method \in MergeMethods
                         THEN [r EXCEPT !.pc = "mu_next",
                                        !.todo = translations(t)]
                         ELSE [r EXCEPT !.pc = "mu_suggest"]]
  /\ UNCHANGED <<conf, now, lock_call, template, work, head, writer, revision,
                 index, last_change, rows, last_call, git_lock, raised>>

\* upload_translation: a user uploads a file for a translation; the view
\* denies a locked translation and a request that is not a POST (lines
\* 89-91), else merge_upload lists the translations to process and
\* dispatches on the method.
upload_translation(p, TT, MM, SS, HM, limit) ==
  /\ proc[p].pc = "idle"
  /\ requests < limit
  /\ requests' = requests + 1
  /\ \E t \in TT, u \in Users, method \in MM, overwrite \in BOOLEAN,
        store \in SS, http \in HM :
       LET checked == is_user_locked(lock_of(t), u)
           denied == \/ prj_locked[subproject(t)] \/ checked.usr_lock
                     \/ http # "POST"
           r == [Idle EXCEPT !.op = "merge_upload", !.t = t, !.origin = t,
                             !.user = u, !.author = get_author_name(u),
                             !.method = method, !.overwrite = overwrite,
                             !.upload = store, !.request_method = http]
       IN  /\ lock_user' = [lock_user EXCEPT ![t] = checked.lock.user]
           /\ lock_time' = [lock_time EXCEPT ![t] = checked.lock.time]
           /\ proc' = [proc EXCEPT ![p] =
                         IF denied
                         THEN [r EXCEPT !.pc = "done", !.outcome = "denied"]
                         ELSE IF method \in MergeMethods
                         THEN [r EXCEPT !.pc = "mu_next",
                                        !.todo = translations(t)]
                         ELSE [r EXCEPT !.pc = "mu_suggest"]]
  /\ UNCHANGED <<conf, now, lock_call, template, work, head, writer, revision,
                 index, last_change, rows, last_call, git_lock, raised>>

\* Lines 1102-1110 and 1117: the loop takes the next translation and calls
\* its merge_store, or is over and merge_upload returns ret.
merge_upload_next(p) ==
  LET r == proc[p] IN
  /\ r.pc = "mu_next"
  /\ IF r.todo = {}
     THEN proc' = [proc EXCEPT ![p] = [r EXCEPT !.pc = "done",
                                               !.ret = r.up_ret,
                                               !.outcome = "returned"]]
     ELSE \E t \in r.todo :
            proc' = [proc EXCEPT ![p] = [r EXCEPT !.pc = "ms_lock", !.t = t,
                                                  !.todo = r.todo \ {t},
                                                  !.ret = FALSE,
                                                  !.gc_ret = FALSE]]
  /\ UNCHANGED <<conf, soft, template, work, head, writer, revision, index,
                 last_change, rows, last_call, git_lock, requests, raised>>

\* Lines 995-1029 in a merge_store that merge_upload called: the store,
\* overwrite and add_fuzzy are those of the upload.
merge_upload_merge(p) ==
  LET r == proc[p] IN
  /\ r.pc = "ms_merge"
  /\ r.op = "merge_upload"
  /\ LET store1 == merge_units(work[r.t], r.upload, 1, r.overwrite,
                               r.method = "fuzzy")
     IN  proc' = [proc EXCEPT ![p] =
                    [r EXCEPT !.pc = "ms_pending", !.store = store1,
                              !.need_save = (store1 # work[r.t])]]
  /\ UNCHANGED <<conf, soft, template, work, head, writer, revision, index,
                 last_change, rows, last_call, git_lock, requests, raised>>

\* Lines 1111-1115 and 1039-1074: merge_suggestions on the translation of
\* the request; merge_upload returns what it returns.
merge_suggestions(p) ==
  LET r == proc[p]
      table == suggestion_rows(suggestions, r.upload, 1, language(r.origin),
                               project[subproject(r.origin)], r.user)
  IN
  /\ r.pc = "mu_suggest"
  /\ suggestions' = table
  /\ proc' = [proc EXCEPT ![p] =
                [r EXCEPT !.pc = "done", !.ret = (table # suggestions),
                          !.up_ret = (table # suggestions),
                          !.suggested = r.suggested \cup {r.origin},
                          !.outcome = "returned"]]
  /\ UNCHANGED <<conf, soft, template, work, head, writer, revision, index,
                 last_change, checks, comments, rechecked, last_call,
                 git_lock, requests, raised>>

\* views/files.py, lines 126-149: what the view tells the user.
message(r) ==
  IF r.outcome = "denied" THEN "Access denied."
  ELSE IF r.outcome = "raised" THEN "File content merge failed"
  ELSE IF r.ret THEN "File content successfully merged into translation."
  ELSE "There were no new strings in uploaded file."

\* The request is over.
finish(p) ==
  /\ proc[p].pc = "done"
  /\ proc' = [proc EXCEPT ![p] = Idle]
  /\ UNCHANGED <<conf, soft, template, work, head, writer, revision, index,
                 last_change, rows, last_call, git_lock, requests, raised>>

\* ------------------------------------------------------------ initial state
E0(k) == Entry(k, 0, FALSE)

\* The files of the repositories when the model starts.
InitStore == [a_cs |-> <<E0("k1"), E0("k2")>>, a_de |-> <<E0("k1")>>,
              b_cs |-> <<E0("k1")>>]
\* The template of subproject "a" holds the source texts of both ids.
InitTemplate == [a |-> <<Entry("k1", 1, FALSE), Entry("k2", 1, FALSE)>>,
                 b |-> <<>>]

\* Everything the commit pipeline does not touch.
InitSoft ==
  /\ AUTO_LOCK = TRUE
  /\ LOCK_TIME = MaxLockSeconds
  /\ AUTO_LOCK_TIME = 1
  /\ prj_locked = [sp \in SubProjects |-> FALSE]
  /\ now = 0
  /\ lock_user = [t \in Trans |-> None]
  /\ lock_time = [t \in Trans |-> 0]
  /\ lock_call = NoLockCall

\* Both subprojects in one project, both propagating translations.
InitProject ==
  /\ project = [sp \in SubProjects |-> "weblate"]
  /\ allow_translation_propagation = [sp \in SubProjects |-> TRUE]

InitRows ==
  /\ checks = {}
  /\ suggestions = {}
  /\ comments = {}
  /\ rechecked = {}
  /\ last_call = NoCall

\* Every translation in sync with a clean working tree, nobody at work.
Init ==
  /\ LAZY_COMMITS \in BOOLEAN
  /\ push_on_commit \in BOOLEAN
  /\ has_template \in {[a |-> x, b |-> FALSE] : x \in BOOLEAN}
  /\ InitProject
  /\ InitSoft
  /\ InitRows
  /\ template = InitTemplate
  /\ work = InitStore
  /\ head = InitStore
  /\ writer = [t \in Trans |-> [k \in Keys |-> NoAuthor]]
  /\ revision = [t \in Trans |-> get_git_blob_hash(head, t)]
  /\ units = [t \in Trans |-> synced_units(InitStore[t], subproject(t))]
  /\ stats = [t \in Trans |-> counted(units[t])]
  /\ last_change = [t \in Trans |-> None]
  /\ git_lock = [sp \in SubProjects |-> FreeLock]
  /\ proc = [p \in Procs |-> Idle]
  /\ requests = 0
  /\ raised = FALSE

\* The translations of the repository of subproject "a".
RepoA == {t \in Trans : subproject(t) = "a"}

\* The inputs of the requests: texts, fuzzy flags and uploads.
EditTexts == {0, 1}
EditFuzzy == {FALSE}
\* The files uploaded over the texts of the edits.
EditUploads == UploadStores(EditTexts)

step(p) ==
  \/ git_commit_check(p) \/ git_commit_lock(p) \/ git_commit_commit(p)
  \/ git_commit_fail(p) \/ git_commit_unlock(p) \/ git_commit_push(p)
  \/ git_commit_raise(p) \/ outer_raise(p)
  \/ update_unit_lock(p) \/ update_unit_find(p) \/ update_unit_pending(p)
  \/ update_unit_save(p) \/ update_unit_unlock(p) \/ record_change(p)
  \/ merge_store_lock(p) \/ merge_store_pending(p)
  \/ merge_store_save(p) \/ merge_store_sync(p) \/ merge_store_unlock(p)
  \/ finish(p)

\* One request at a time, of any kind, on the repository of subproject "a".
Next ==
  \E p \in {"p1"} :
    \/ start_git_commit(p, RepoA, BOOLEAN, BOOLEAN, MaxRequests)
    \/ start_update_unit(p, RepoA, EditTexts, EditFuzzy, MaxRequests)
    \/ start_merge_store(p, RepoA, MaxRequests)
    \/ merge_store_merge(p, EditUploads, BOOLEAN)
    \/ step(p)

Spec == Init /\ [][Next]_vars

\* One request at a time, edits and uploads only.
NextEdit ==
  \E p \in {"p1"} :
    \/ start_update_unit(p, RepoA, EditTexts, EditFuzzy, MaxRequests)
    \/ start_merge_store(p, RepoA, MaxRequests)
    \/ merge_store_merge(p, EditUploads, BOOLEAN)
    \/ step(p)

SpecEdit == Init /\ [][NextEdit]_vars

\* ------------------------------------------------- concurrent requests
\* The working tree of "a_cs" may hold an edit of alice that a lazy commit
\* has left uncommitted.
InitConc ==
  /\ LAZY_COMMITS \in BOOLEAN
  /\ push_on_commit = TRUE
  /\ has_template = [a |-> FALSE, b |-> FALSE]
  /\ InitProject
  /\ InitSoft
  /\ InitRows
  /\ template = InitTemplate
  /\ head = InitStore
  /\ \E dirty \in BOOLEAN :
       /\ work = IF dirty
                 THEN [InitStore EXCEPT !["a_cs"][1] = Entry("k1", 1, FALSE)]
                 ELSE InitStore
       /\ writer = [t \in Trans |-> [k \in Keys |->
                      IF dirty /\ t = "a_cs" /\ k = "k1"
                      THEN get_author_name("alice") ELSE NoAuthor]]
       /\ last_change = [t \in Trans |->
                           IF dirty /\ t = "a_cs" THEN "alice" ELSE None]
  /\ revision = [t \in Trans |-> get_git_blob_hash(head, t)]
  /\ units = [t \in Trans |-> synced_units(InitStore[t], subproject(t))]
  /\ stats = [t \in Trans |-> counted(units[t])]
  /\ git_lock = [sp \in SubProjects |-> FreeLock]
  /\ proc = [p \in Procs |-> Idle]
  /\ requests = 0
  /\ raised = FALSE

ConcUploads == {<<Entry("k1", 1, FALSE)>>, <<Entry("k2", 1, FALSE)>>}

\* Two requests, served by two processes in any interleaving.
NextConc ==
  \E p \in Procs :
    \/ start_git_commit(p, RepoA, {TRUE}, {FALSE}, Cardinality(Procs))
    \/ start_update_unit(p, RepoA, {1}, {FALSE}, Cardinality(Procs))
    \/ start_merge_store(p, RepoA, Cardinality(Procs))
    \/ merge_store_merge(p, ConcUploads, {FALSE})
    \/ step(p)

SpecConc == InitConc /\ [][NextConc]_vars

\* ------------------------------------------------------------ soft locking
\* Any lock settings; the rest of the project as the pipeline starts it.
InitLock ==
  /\ LAZY_COMMITS = FALSE
  /\ push_on_commit = FALSE
  /\ has_template = [a |-> FALSE, b |-> FALSE]
  /\ InitProject
  /\ AUTO_LOCK \in BOOLEAN
  /\ LOCK_TIME \in 1..MaxLockSeconds
  /\ AUTO_LOCK_TIME \in 1..MaxLockSeconds
  /\ prj_locked \in {[a |-> x, b |-> FALSE] : x \in BOOLEAN}
  /\ now = 0
  /\ lock_user = [t \in Trans |-> None]
  /\ lock_time = [t \in Trans |-> 0]
  /\ lock_call = NoLockCall
  /\ InitRows
  /\ template = InitTemplate
  /\ work = InitStore
  /\ head = InitStore
  /\ writer = [t \in Trans |-> [k \in Keys |-> NoAuthor]]
  /\ revision = [t \in Trans |-> get_git_blob_hash(head, t)]
  /\ units = [t \in Trans |-> synced_units(InitStore[t], subproject(t))]
  /\ stats = [t \in Trans |-> counted(units[t])]
  /\ last_change = [t \in Trans |-> None]
  /\ git_lock = [sp \in SubProjects |-> FreeLock]
  /\ proc = [p \in Procs |-> Idle]
  /\ requests = 0
  /\ raised = FALSE

\* The soft lock of one translation, used by two users as time passes.
NextLock ==
  \/ tick
  \/ \E u \in Users \cup {None} : do_is_locked("a_cs", u)
  \/ \E u \in Users \cup {None}, explicit \in BOOLEAN :
       do_create_lock("a_cs", u, explicit)
  \/ \E u \in Users : do_update_lock("a_cs", u)

SpecLock == InitLock /\ [][NextLock]_vars

\* ------------------------------------------------------------------ uploads
\* The files an upload is merged into: translated, fuzzy and untranslated
\* units; "a_de" has no unit for "k2".
MergeTargets ==
  {[InitStore EXCEPT !["a_cs"] = cs] :
     cs \in {<<Entry("k1", 1, FALSE), E0("k2")>>,
             <<Entry("k1", 1, TRUE), Entry("k2", 1, FALSE)>>,
             <<Entry("k1", 1, FALSE)>>}}

\* The uploaded stores: translated, fuzzy and untranslated entries, with a
\* header, with the text the file has, with another one, and with the text
\* the last commit has under an uncommitted edit.
MergeStores ==
  {<<Entry("k1", 2, FALSE)>>, <<Entry("k1", 2, TRUE)>>, <<E0("k1")>>,
   <<Entry("k1", 1, FALSE)>>, <<Entry("k2", 2, FALSE)>>,
   <<Entry("k2", 1, FALSE)>>,
   <<Entry(HeaderKey, 1, FALSE), Entry("k1", 2, FALSE),
     Entry("k2", 2, FALSE)>>}

\* The files are committed and in sync, or "a_cs" holds in its unit "k2"
\* an edit of alice that a lazy commit has left uncommitted.
InitMerge ==
  /\ LAZY_COMMITS \in BOOLEAN
  /\ push_on_commit = FALSE
  /\ has_template = [a |-> FALSE, b |-> FALSE]
  /\ InitProject
  /\ InitSoft
  /\ InitRows
  /\ template = InitTemplate
  /\ head \in MergeTargets
  /\ \E dirty \in {d \in BOOLEAN :
                     d => LAZY_COMMITS /\ Len(head["a_cs"]) = 2} :
       /\ work = IF dirty
                 THEN [head EXCEPT !["a_cs"][2] = Entry("k2", 2, FALSE)]
                 ELSE head
       /\ writer = [t \in Trans |-> [k \in Keys |->
                      IF dirty /\ t = "a_cs" /\ k = "k2"
                      THEN get_author_name("alice") ELSE NoAuthor]]
       /\ last_change = [t \in Trans |->
                           IF dirty /\ t = "a_cs" THEN "alice" ELSE None]
  /\ revision = [t \in Trans |-> get_git_blob_hash(head, t)]
  /\ units = [t \in Trans |-> synced_units(work[t], subproject(t))]
  /\ stats = [t \in Trans |-> counted(units[t])]
  /\ git_lock = [sp \in SubProjects |-> FreeLock]
  /\ proc = [p \in Procs |-> Idle]
  /\ requests = 0
  /\ raised = FALSE

\* One upload is merged into a translation of subproject "a".
NextMerge ==
  \E p \in {"p1"} :
    \/ start_merge_store(p, RepoA, 1)
    \/ merge_store_lock(p)
    \/ merge_store_merge(p, MergeStores, BOOLEAN)
    \/ merge_store_pending(p)
    \/ merge_store_save(p)
    \/ git_commit_check(p) \/ git_commit_lock(p) \/ git_commit_commit(p)
    \/ git_commit_fail(p) \/ git_commit_unlock(p) \/ git_commit_push(p)
    \/ git_commit_raise(p) \/ outer_raise(p)
    \/ merge_store_sync(p)
    \/ merge_store_unlock(p)
    \/ finish(p)

SpecMerge == InitMerge /\ [][NextMerge]_vars

\* The commit pipeline on "a_cs": its file is committed, or holds in "k2"
\* an edit of alice that a lazy commit has left uncommitted.
InitCommit ==
  /\ LAZY_COMMITS \in BOOLEAN
  /\ push_on_commit \in BOOLEAN
  /\ has_template = [a |-> FALSE, b |-> FALSE]
  /\ InitProject
  /\ InitSoft
  /\ InitRows
  /\ template = InitTemplate
  /\ head = InitStore
  /\ \E dirty \in {d \in BOOLEAN : d => LAZY_COMMITS} :
       /\ work = IF dirty
                 THEN [head EXCEPT !["a_cs"][2] = Entry("k2", 1, FALSE)]
                 ELSE head
       /\ writer = [t \in Trans |-> [k \in Keys |->
                      IF dirty /\ t = "a_cs" /\ k = "k2"
                      THEN get_author_name("alice") ELSE NoAuthor]]
       /\ last_change = [t \in Trans |->
                           IF dirty /\ t = "a_cs" THEN "alice" ELSE None]
  /\ revision = [t \in Trans |-> get_git_blob_hash(head, t)]
  /\ units = [t \in Trans |-> synced_units(work[t], subproject(t))]
  /\ stats = [t \in Trans |-> counted(units[t])]
  /\ git_lock = [sp \in SubProjects |-> FreeLock]
  /\ proc = [p \in Procs |-> Idle]
  /\ requests = 0
  /\ raised = FALSE

\* One request of any kind on "a_cs".
NextCommit ==
  \E p \in {"p1"} :
    \/ start_git_commit(p, {"a_cs"}, BOOLEAN, BOOLEAN, 1)
    \/ start_update_unit(p, {"a_cs"}, EditTexts, EditFuzzy, 1)
    \/ start_merge_store(p, {"a_cs"}, 1)
    \/ merge_store_merge(p, EditUploads, BOOLEAN)
    \/ step(p)

SpecCommit == InitCommit /\ [][NextCommit]_vars

\* The files an upload is dispatched on: "k1" is translated in "a_cs" only
\* and "k2" is a unit of "a_cs" only.
UploadTargets ==
  [InitStore EXCEPT !["a_cs"] = <<Entry("k1", 1, FALSE), E0("k2")>>]

\* The uploaded files, with no, one and two translated entries.
UploadFiles ==
  {<<E0("k1")>>, <<Entry("k1", 2, FALSE)>>, <<Entry("k2", 2, FALSE)>>,
   <<Entry(HeaderKey, 1, FALSE), Entry("k1", 2, FALSE),
     Entry("k2", 2, FALSE)>>}

\* The subprojects are in one project or in two, and each propagates
\* translations or does not; the files are committed and in sync, or "a_cs"
\* holds in its unit "k2" an edit of alice that a lazy commit has left
\* uncommitted.
InitUpload ==
  /\ LAZY_COMMITS \in BOOLEAN
  /\ push_on_commit = FALSE
  /\ has_template = [a |-> FALSE, b |-> FALSE]
  /\ project \in {[a |-> "weblate", b |-> prj] : prj \in {"weblate", "other"}}
  /\ allow_translation_propagation \in [SubProjects -> BOOLEAN]
  /\ InitSoft
  /\ InitRows
  /\ template = InitTemplate
  /\ head = UploadTargets
  /\ \E dirty \in {d \in BOOLEAN : d => LAZY_COMMITS} :
       /\ work = IF dirty
                 THEN [head EXCEPT !["a_cs"][2] = Entry("k2", 1, FALSE)]
                 ELSE head
       /\ writer = [t \in Trans |-> [k \in Keys |->
                      IF dirty /\ t = "a_cs" /\ k = "k2"
                      THEN get_author_name("alice") ELSE NoAuthor]]
       /\ last_change = [t \in Trans |->
                           IF dirty /\ t = "a_cs" THEN "alice" ELSE None]
  /\ revision = [t \in Trans |-> get_git_blob_hash(head, t)]
  /\ units = [t \in Trans |-> synced_units(work[t], subproject(t))]
  /\ stats = [t \in Trans |-> counted(units[t])]
  /\ git_lock = [sp \in SubProjects |-> FreeLock]
  /\ proc = [p \in Procs |-> Idle]
  /\ requests = 0
  /\ raised = FALSE

\* One file is uploaded, with any method.
NextUpload ==
  \E p \in {"p1"} :
    \/ upload_translation(p, {"a_cs", "b_cs"}, MergeMethods \cup {"suggest"},
                          UploadFiles, {"POST"}, 1)
    \/ merge_upload_next(p)
    \/ merge_store_lock(p)
    \/ merge_upload_merge(p)
    \/ merge_store_pending(p)
    \/ merge_store_save(p)
    \/ git_commit_check(p) \/ git_commit_lock(p) \/ git_commit_commit(p)
    \/ git_commit_fail(p) \/ git_commit_unlock(p) \/ git_commit_push(p)
    \/ git_commit_raise(p) \/ outer_raise(p)
    \/ merge_store_sync(p)
    \/ merge_store_unlock(p)
    \/ merge_suggestions(p)
    \/ finish(p)

SpecUpload == InitUpload /\ [][NextUpload]_vars

\* Suggestions are uploaded, to a table that is empty or holds a suggestion
\* for "k1" in the language already.
InitSuggest ==
  /\ LAZY_COMMITS = FALSE
  /\ push_on_commit = FALSE
  /\ has_template = [a |-> FALSE, b |-> FALSE]
  /\ InitProject
  /\ InitSoft
  /\ checks = {}
  /\ suggestions \in {{}, {Row("cs", "k1")}}
  /\ comments = {}
  /\ rechecked = {}
  /\ last_call = NoCall
  /\ template = InitTemplate
  /\ head = UploadTargets
  /\ work = head
  /\ writer = [t \in Trans |-> [k \in Keys |-> NoAuthor]]
  /\ last_change = [t \in Trans |-> None]
  /\ revision = [t \in Trans |-> get_git_blob_hash(head, t)]
  /\ units = [t \in Trans |-> synced_units(work[t], subproject(t))]
  /\ stats = [t \in Trans |-> counted(units[t])]
  /\ git_lock = [sp \in SubProjects |-> FreeLock]
  /\ proc = [p \in Procs |-> Idle]
  /\ requests = 0
  /\ raised = FALSE

NextSuggest ==
  \E p \in {"p1"} :
    \/ upload_translation(p, {"a_cs", "a_de"}, {"suggest"}, UploadFiles,
                          {"POST"}, MaxUploads)
    \/ merge_suggestions(p)
    \/ finish(p)

SpecSuggest == InitSuggest /\ [][NextSuggest]_vars

\* A lock that is left alone: "a_cs" is free, or locked by a user until
\* some time, and from then on the lock is only looked at as time passes.
InitExpire ==
  /\ LAZY_COMMITS = FALSE
  /\ push_on_commit = FALSE
  /\ has_template = [a |-> FALSE, b |-> FALSE]
  /\ InitProject
  /\ AUTO_LOCK \in BOOLEAN
  /\ LOCK_TIME \in 1..MaxLockSeconds
  /\ AUTO_LOCK_TIME \in 1..MaxLockSeconds
  /\ prj_locked \in {[a |-> x, b |-> FALSE] : x \in BOOLEAN}
  /\ now = 0
  /\ \E u \in Users \cup {None} :
       /\ lock_user = [t \in Trans |-> IF t = "a_cs" THEN u ELSE None]
       /\ lock_time \in {[t \in Trans |-> IF t = "a_cs" /\ u # None
                                           THEN now + seconds ELSE 0] :
                            seconds \in {LOCK_TIME, AUTO_LOCK_TIME}}
  /\ lock_call = NoLockCall
  /\ InitRows
  /\ template = InitTemplate
  /\ work = InitStore
  /\ head = InitStore
  /\ writer = [t \in Trans |-> [k \in Keys |-> NoAuthor]]
  /\ revision = [t \in Trans |-> get_git_blob_hash(head, t)]
  /\ units = [t \in Trans |-> synced_units(InitStore[t], subproject(t))]
  /\ stats = [t \in Trans |-> counted(units[t])]
  /\ last_change = [t \in Trans |-> None]
  /\ git_lock = [sp \in SubProjects |-> FreeLock]
  /\ proc = [p \in Procs |-> Idle]
  /\ requests = 0
  /\ raised = FALSE

NextExpire ==
  \/ tick
  \/ \E u \in Users \cup {None} : do_is_locked("a_cs", u)

\* The clock does not stop.
SpecExpire == InitExpire /\ [][NextExpire]_vars /\ WF_vars(tick)

\* ---------------------------------------------------------- synchronisation
Header == Entry(HeaderKey, 1, FALSE)

\* The contents a pull may bring to a file, and to the template.
SyncStores == {<<E0("k1"), E0("k2")>>, <<E0("k1")>>, <<E0("k2")>>,
               <<Header, Entry("k1", 1, FALSE)>>}
SyncTemplates == {InitTemplate["a"], <<Entry("k2", 1, FALSE)>>}

\* A pull brings a new version of the file of a translation.
external_change(t, store) ==
  /\ store # head[t]
  /\ head' = [head EXCEPT ![t] = store]
  /\ work' = [work EXCEPT ![t] = store]
  /\ writer' = [writer EXCEPT ![t] = [k \in Keys |-> NoAuthor]]
  /\ last_call' = NoCall
  /\ UNCHANGED <<conf, soft, template, revision, index, last_change, rows,
                 git_lock, proc, requests, raised>>

\* A pull brings a new version of the template of a subproject.
external_template_change(sp, store) ==
  /\ has_template[sp]
  /\ store # template[sp]
  /\ template' = [template EXCEPT ![sp] = store]
  /\ last_call' = NoCall
  /\ UNCHANGED <<conf, soft, work, head, writer, revision, index, last_change,
                 rows, git_lock, proc, requests, raised>>

\* A request or a hook calls update_from_blob on the file on disk.
reconcile(t, force, user) ==
  /\ update_from_blob(t, force, user, work[t])
  /\ UNCHANGED <<conf, soft, template, work, head, writer, last_change,
                 git_lock, proc, requests, raised>>

\* Lines 413-440 of update_from_blob in a request of its own: the blob hash
\* is read and compared with the revision, and unless the cheap path
\* returns, the file is loaded.
reconcile_begin(p, TT, limit) ==
  /\ proc[p].pc = "idle"
  /\ requests < limit
  /\ requests' = requests + 1
  /\ \E t \in TT, force \in BOOLEAN :
       LET r == [Idle EXCEPT !.op = "update_from_blob", !.t = t,
                             !.force = force]
       IN  IF up_to_date(t, force)
           THEN /\ update_from_blob(t, force, None, work[t])
                /\ proc' = [proc EXCEPT ![p] =
                              [r EXCEPT !.pc = "done",
                                        !.outcome = "returned"]]
           ELSE /\ proc' = [proc EXCEPT ![p] =
                              [r EXCEPT !.pc = "ufb_units",
                                        !.store = work[t]]]
                /\ UNCHANGED <<revision, index, rows, last_call>>
  /\ UNCHANGED <<conf, soft, template, work, head, writer, last_change,
                 git_lock, raised>>

\* Lines 441-553: the units are written from the file that was loaded,
\* the dependent rows are cleaned and update_stats stores the counts and,
\* through store_hash, the blob hash as it is now.
reconcile_end(p) ==
  LET r == proc[p] IN
  /\ r.pc = "ufb_units"
  /\ update_from_blob(r.t, TRUE, r.user, r.store)
  /\ proc' = [proc EXCEPT ![p] = [r EXCEPT !.pc = "done",
                                           !.outcome = "returned"]]
  /\ UNCHANGED <<conf, soft, template, work, head, writer, last_change,
                 git_lock, requests, raised>>

\* Profile.objects.subscribed_new_string(project, language): the users
\* who asked to hear of new strings of this language of the project.
subscribed_new_string(prj, lang) == IF lang = "cs" THEN Users ELSE {}

\* Lines 441-549: as reconcile_end, up to the query of the subscriptions
\* that line 547 makes when was_new is set.
reconcile_write(p) ==
  LET r == proc[p]
      sp == subproject(r.t)
  IN
  /\ r.pc = "ufb_units"
  /\ update_from_blob(r.t, TRUE, r.user, r.store)
  /\ proc' = [proc EXCEPT ![p] =
       IF last_call'.notified
            /\ subscribed_new_string(project[sp], language(r.t)) # {}
       THEN [r EXCEPT !.pc = "ufb_notify",
                      !.todo = subscribed_new_string(project[sp],
                                                     language(r.t))]
       ELSE [r EXCEPT !.pc = "done", !.outcome = "returned"]]
  /\ UNCHANGED <<conf, soft, template, work, head, writer, last_change,
                 git_lock, requests, raised>>

\* Lines 550-551, one turn of the loop: subscription.notify_new_string()
\* returns; after the last one update_from_blob returns.
notify_new_string(p) ==
  LET r == proc[p] IN
  /\ r.pc = "ufb_notify"
  /\ \E s \in r.todo :
       proc' = [proc EXCEPT ![p] =
         IF r.todo = {s}
         THEN [r EXCEPT !.pc = "done", !.outcome = "returned", !.todo = {},
                        !.notified = @ \cup {s}]
         ELSE [r EXCEPT !.todo = @ \ {s}, !.notified = @ \cup {s}]]
  /\ UNCHANGED <<conf, soft, template, work, head, writer, revision, index,
                 last_change, rows, last_call, git_lock, requests, raised>>

\* Lines 550-551, one turn of the loop: subscription.notify_new_string()
\* raises; no handler is around the call or the loop, the exception leaves
\* update_from_blob.
notify_new_string_raise(p) ==
  LET r == proc[p] IN
  /\ r.pc = "ufb_notify"
  /\ raised' = TRUE
  /\ proc' = [proc EXCEPT ![p] = [r EXCEPT !.pc = "done",
                                           !.outcome = "raised"]]
  /\ UNCHANGED <<conf, soft, template, work, head, writer, revision, index,
                 last_change, rows, last_call, git_lock, requests>>

\* The checks, suggestions and comments subsystems record a row.
Languages == Langs \cup {None}
row_count == Cardinality(checks) + Cardinality(suggestions)
               + Cardinality(comments)

add_check(lang, c) ==
  /\ row_count < MaxRows
  /\ Row(lang, c) \notin checks
  /\ checks' = checks \cup {Row(lang, c)}
  /\ last_call' = NoCall
  /\ UNCHANGED <<conf, soft, template, work, head, writer, revision, index,
                 last_change, suggestions, comments, rechecked, git_lock,
                 proc, requests, raised>>

add_suggestion(lang, c) ==
  /\ row_count < MaxRows
  /\ Row(lang, c) \notin suggestions
  /\ suggestions' = suggestions \cup {Row(lang, c)}
  /\ last_call' = NoCall
  /\ UNCHANGED <<conf, soft, template, work, head, writer, revision, index,
                 last_change, checks, comments, rechecked, git_lock, proc,
                 requests, raised>>

add_comment(lang, c) ==
  /\ row_count < MaxRows
  /\ Row(lang, c) \notin comments
  /\ comments' = comments \cup {Row(lang, c)}
  /\ last_call' = NoCall
  /\ UNCHANGED <<conf, soft, template, work, head, writer, revision, index,
                 last_change, checks, suggestions, rechecked, git_lock, proc,
                 requests, raised>>

\* Translations that were created and never synchronised.
InitSync ==
  /\ LAZY_COMMITS = FALSE
  /\ push_on_commit = FALSE
  /\ has_template \in {[a |-> x, b |-> FALSE] : x \in BOOLEAN}
  /\ InitProject
  /\ InitSoft
  /\ InitRows
  /\ template = InitTemplate
  /\ work = InitStore
  /\ head = InitStore
  /\ writer = [t \in Trans |-> [k \in Keys |-> NoAuthor]]
  /\ revision = [t \in Trans |-> <<>>]
  /\ units = [t \in Trans |-> {}]
  /\ stats = [t \in Trans |-> counted({})]
  /\ last_change = [t \in Trans |-> None]
  /\ git_lock = [sp \in SubProjects |-> FreeLock]
  /\ proc = [p \in Procs |-> Idle]
  /\ requests = 0
  /\ raised = FALSE

\* Pulls and synchronisations of the translations of subproject "a".
NextSync ==
  \/ \E t \in RepoA, store \in SyncStores : external_change(t, store)
  \/ \E store \in SyncTemplates : external_template_change("a", store)
  \/ \E t \in RepoA, force \in BOOLEAN, user \in {None, "alice"} :
       reconcile(t, force, user)

SpecSync == InitSync /\ [][NextSync]_vars

\* Files with translated, fuzzy and empty entries, with and without header.
StatsStores == {<<Entry("k1", 2, TRUE), Entry("k2", 1, FALSE)>>,
                <<Header, Entry("k1", 1, FALSE)>>,
                <<Entry("k1", 1, TRUE)>>, <<E0("k2")>>}

\* Pulls of such files to "a_cs", and its synchronisations.
NextStats ==
  \/ \E store \in StatsStores : external_change("a_cs", store)
  \/ \E store \in SyncTemplates : external_template_change("a", store)
  \/ \E force \in BOOLEAN, user \in {None, "alice"} :
       reconcile("a_cs", force, user)

SpecStats == InitSync /\ [][NextStats]_vars

\* Pulls and synchronisations of all translations, without a template,
\* while dependent rows are recorded for the source text "k1".
InitCleanup ==
  /\ LAZY_COMMITS = FALSE
  /\ push_on_commit = FALSE
  /\ has_template = [sp \in SubProjects |-> FALSE]
  /\ InitProject
  /\ InitSoft
  /\ InitRows
  /\ template = InitTemplate
  /\ work = InitStore
  /\ head = InitStore
  /\ writer = [t \in Trans |-> [k \in Keys |-> NoAuthor]]
  /\ revision = [t \in Trans |-> get_git_blob_hash(head, t)]
  /\ units = [t \in Trans |-> synced_units(InitStore[t], subproject(t))]
  /\ stats = [t \in Trans |-> counted(units[t])]
  /\ last_change = [t \in Trans |-> None]
  /\ git_lock = [sp \in SubProjects |-> FreeLock]
  /\ proc = [p \in Procs |-> Idle]
  /\ requests = 0
  /\ raised = FALSE

CleanupStores == {<<E0("k1"), E0("k2")>>, <<E0("k2")>>}

NextCleanup ==
  \/ \E t \in Trans, store \in CleanupStores : external_change(t, store)
  \/ \E t \in Trans, force \in BOOLEAN : reconcile(t, force, None)
  \/ \E lang \in Languages : add_check(lang, "k1")
  \/ \E lang \in Langs : add_suggestion(lang, "k1")
  \/ \E lang \in Languages : add_comment(lang, "k1")

SpecCleanup == InitCleanup /\ [][NextCleanup]_vars

\* The file uploaded beside a synchronisation: a new text for "k1".
RaceUploads == {<<Entry("k1", 2, FALSE)>>}

\* A synchronisation of "a_cs" by one process while another one merges an
\* upload into it; "a_cs" is in sync or was never synchronised.
InitRace ==
  /\ LAZY_COMMITS = FALSE
  /\ push_on_commit = FALSE
  /\ has_template = [a |-> FALSE, b |-> FALSE]
  /\ InitProject
  /\ InitSoft
  /\ InitRows
  /\ template = InitTemplate
  /\ head = InitStore
  /\ work = head
  /\ writer = [t \in Trans |-> [k \in Keys |-> NoAuthor]]
  /\ last_change = [t \in Trans |-> None]
  /\ \E synced \in BOOLEAN :
       /\ revision = [t \in Trans |->
                        IF t = "a_cs" /\ ~synced THEN <<>>
                        ELSE get_git_blob_hash(head, t)]
       /\ units = [t \in Trans |->
                     IF t = "a_cs" /\ ~synced THEN {}
                     ELSE synced_units(work[t], subproject(t))]
  /\ stats = [t \in Trans |-> counted(units[t])]
  /\ git_lock = [sp \in SubProjects |-> FreeLock]
  /\ proc = [p \in Procs |-> Idle]
  /\ requests = 0
  /\ raised = FALSE

NextRace ==
  \/ reconcile_begin("p1", {"a_cs"}, MaxRequests)
  \/ reconcile_end("p1")
  \/ finish("p1")
  \/ \E p \in {"p2"} :
       \/ start_merge_store(p, {"a_cs"}, MaxRequests)
       \/ merge_store_lock(p)
       \/ merge_store_merge(p, RaceUploads, {FALSE})
       \/ merge_store_pending(p)
       \/ merge_store_save(p)
       \/ git_commit_check(p) \/ git_commit_lock(p) \/ git_commit_commit(p)
       \/ git_commit_fail(p) \/ git_commit_unlock(p) \/ git_commit_push(p)
       \/ git_commit_raise(p) \/ outer_raise(p)
       \/ merge_store_sync(p)
       \/ merge_store_unlock(p)
       \/ finish(p)

SpecRace == InitRace /\ [][NextRace]_vars

\* ------------------------------------------- nested with blocks, two requests
\* What one process does: it serves an update_unit or a merge_store, whose
\* with block holds the calls of commit_pending and git_commit.
ProcNested(p) ==
  \/ start_update_unit(p, {"a_cs"}, {1}, {FALSE}, Cardinality(Procs))
  \/ start_merge_store(p, {"a_cs"}, Cardinality(Procs))
  \/ merge_store_merge(p, ConcUploads, {FALSE})
  \/ step(p)

NextNested == \E p \in Procs : ProcNested(p)

\* Every process that can go on does go on.
SpecNested ==
  /\ InitConc
  /\ [][NextNested]_vars
  /\ \A p \in Procs : WF_vars(ProcNested(p))

\* ------------------------------------------------ the same call, two locks
\* The calls of the commit pipeline a view makes: git_commit, update_unit
\* and merge_store, each of which may call commit_pending.
PipelineCalls ==
  {call_git_commit([Idle EXCEPT !.op = "git_commit", !.user = u],
                   get_author_name(u), force, sync, FALSE, "done") :
     u \in Users, force \in BOOLEAN, sync \in BOOLEAN}
  \cup {[Idle EXCEPT !.pc = "uu_lock", !.op = "update_unit", !.user = u,
                     !.author = get_author_name(u), !.key = k,
                     !.target = v] :
          u \in Users, k \in Keys, v \in EditTexts}
  \cup {[Idle EXCEPT !.pc = "ms_lock", !.op = "merge_store", !.user = u,
                     !.author = get_author_name(u)] : u \in Users}

\* The same call is made on "a_cs" and on "b_cs".
start_same_call ==
  /\ \A p \in Procs : proc[p].pc = "idle"
  /\ requests = 0
  /\ requests' = 1
  /\ \E call \in PipelineCalls :
       proc' = [p1 |-> [call EXCEPT !.t = "a_cs"],
                p2 |-> [call EXCEPT !.t = "b_cs"]]
  /\ UNCHANGED <<conf, soft, template, work, head, writer, revision, index,
                 last_change, rows, last_call, git_lock, raised>>

\* Two repositories hold the same file, committed or with an uncommitted
\* edit of alice, and the same units.  The soft lock of "b_cs" is free; that
\* of "a_cs" is free, or held by alice or bob, alive or expired.
InitIndep ==
  /\ LAZY_COMMITS \in BOOLEAN
  /\ push_on_commit = FALSE
  /\ has_template = [a |-> FALSE, b |-> FALSE]
  /\ InitProject
  /\ AUTO_LOCK = TRUE
  /\ LOCK_TIME = MaxLockSeconds
  /\ AUTO_LOCK_TIME = 1
  /\ prj_locked = [sp \in SubProjects |-> FALSE]
  /\ now = 2
  /\ \E u \in Users \cup {None}, expiry \in {1, 3} :
       /\ u = None => expiry = 1
       /\ lock_user = [t \in Trans |-> IF t = "a_cs" THEN u ELSE None]
       /\ lock_time = [t \in Trans |->
                         IF t = "a_cs" /\ u # None THEN expiry ELSE 0]
  /\ lock_call = NoLockCall
  /\ InitRows
  /\ template = InitTemplate
  /\ head = [InitStore EXCEPT
               !["a_cs"] = <<Entry("k1", 1, FALSE), E0("k2")>>,
               !["b_cs"] = <<Entry("k1", 1, FALSE), E0("k2")>>]
  /\ \E dirty \in {d \in BOOLEAN : d => LAZY_COMMITS} :
       /\ work = IF dirty
                 THEN [head EXCEPT !["a_cs"][2] = Entry("k2", 2, FALSE),
                                   !["b_cs"][2] = Entry("k2", 2, FALSE)]
                 ELSE head
       /\ writer = [t \in Trans |-> [k \in Keys |->
                      IF dirty /\ t # "a_de" /\ k = "k2"
                      THEN get_author_name("alice") ELSE NoAuthor]]
       /\ last_change = [t \in Trans |->
                           IF dirty /\ t # "a_de" THEN "alice" ELSE None]
  /\ revision = [t \in Trans |-> get_git_blob_hash(head, t)]
  /\ units = [t \in Trans |-> synced_units(work[t], subproject(t))]
  /\ stats = [t \in Trans |-> counted(units[t])]
  /\ git_lock = [sp \in SubProjects |-> FreeLock]
  /\ proc = [p \in Procs |-> Idle]
  /\ requests = 0
  /\ raised = FALSE

\* The call on "a_cs" runs, then the call on "b_cs"; one call of the soft
\* lock of "a_cs" comes at any moment.
NextIndep ==
  \/ start_same_call
  \/ \E p \in Procs :
       /\ p = "p2" => proc["p1"].pc = "done"
       /\ \/ git_commit_check(p) \/ git_commit_lock(p)
          \/ git_commit_commit(p) \/ git_commit_unlock(p)
          \/ git_commit_push(p)
          \/ update_unit_lock(p) \/ update_unit_find(p)
          \/ update_unit_pending(p) \/ update_unit_save(p)
          \/ update_unit_unlock(p) \/ record_change(p)
          \/ merge_store_lock(p)
          \/ merge_store_merge(p, RaceUploads, {FALSE})
          \/ merge_store_pending(p) \/ merge_store_save(p)
          \/ merge_store_sync(p) \/ merge_store_unlock(p)
  \/ /\ lock_call = NoLockCall
     /\ \/ \E u \in Users \cup {None} : do_is_locked("a_cs", u)
        \/ \E u \in Users \cup {None}, explicit \in BOOLEAN :
             do_create_lock("a_cs", u, explicit)
        \/ \E u \in Users : do_update_lock("a_cs", u)

SpecIndep == InitIndep /\ [][NextIndep]_vars

\* ------------------------------------------------- the gate of the upload
\* The files a gated upload brings.
GateFiles == {<<Entry("k1", 2, FALSE)>>, <<Entry("k2", 2, FALSE)>>}

\* The files are committed and in sync.  Subproject "a" is locked or not;
\* the soft lock of "a_cs" is free, or held by alice or bob, alive or
\* expired.
InitGate ==
  /\ LAZY_COMMITS = FALSE
  /\ push_on_commit = FALSE
  /\ has_template = [a |-> FALSE, b |-> FALSE]
  /\ InitProject
  /\ AUTO_LOCK = TRUE
  /\ LOCK_TIME = MaxLockSeconds
  /\ AUTO_LOCK_TIME = 1
  /\ prj_locked \in {[a |-> x, b |-> FALSE] : x \in BOOLEAN}
  /\ now = 2
  /\ \E u \in Users \cup {None}, expiry \in {1, 2, 3} :
       /\ u = None => expiry = 1
       /\ lock_user = [t \in Trans |-> IF t = "a_cs" THEN u ELSE None]
       /\ lock_time = [t \in Trans |->
                         IF t = "a_cs" /\ u # None THEN expiry ELSE 0]
  /\ lock_call = NoLockCall
  /\ InitRows
  /\ template = InitTemplate
  /\ head = UploadTargets
  /\ work = UploadTargets
  /\ writer = [t \in Trans |-> [k \in Keys |-> NoAuthor]]
  /\ last_change = [t \in Trans |-> None]
  /\ revision = [t \in Trans |-> get_git_blob_hash(head, t)]
  /\ units = [t \in Trans |-> synced_units(work[t], subproject(t))]
  /\ stats = [t \in Trans |-> counted(units[t])]
  /\ git_lock = [sp \in SubProjects |-> FreeLock]
  /\ proc = [p \in Procs |-> Idle]
  /\ requests = 0
  /\ raised = FALSE

\* One request to the upload view of "a_cs", of any HTTP method.
NextGate ==
  \E p \in {"p1"} :
    \/ upload_translation(p, {"a_cs"}, {"", "suggest"}, GateFiles,
                          {"GET", "POST"}, 1)
    \/ merge_upload_next(p)
    \/ merge_store_lock(p)
    \/ merge_upload_merge(p)
    \/ merge_store_pending(p)
    \/ merge_store_save(p)
    \/ git_commit_check(p) \/ git_commit_lock(p) \/ git_commit_commit(p)
    \/ git_commit_unlock(p) \/ git_commit_push(p)
    \/ merge_store_sync(p)
    \/ merge_store_unlock(p)
    \/ merge_suggestions(p)
    \/ finish(p)

SpecGate == InitGate /\ [][NextGate]_vars

\* ------------------------------------------- notification of new strings
\* Pulls to "a_cs" between the requests, and synchronisations of it whose
\* notifications may fail.
NextNotify ==
  \/ /\ proc["p1"].pc = "idle"
     /\ \E store \in SyncStores : external_change("a_cs", store)
  \/ reconcile_begin("p1", {"a_cs"}, MaxRequests)
  \/ reconcile_write("p1")
  \/ notify_new_string("p1")
  \/ notify_new_string_raise("p1")
  \/ finish("p1")

SpecNotify == InitSync /\ [][NextNotify]_vars

\* ================================================================== properties
\* A process is inside a with block of the write lock: anywhere in
\* update_unit or merge_store between entering and leaving, and in
\* git_commit between line 776 and the end of its with block.
InSection(p) ==
  IF proc[p].op \in {"update_unit", "merge_store"}
  THEN proc[p].pc \notin {"idle", "uu_lock", "ms_lock", "uu_change", "done"}
  ELSE proc[p].pc \in {"gc_try1", "gc_try2", "gc_unlock", "gc_raise"}

\* The next step of the process saves the file or commits it.
AtWrite(p) == proc[p].pc \in {"uu_save", "ms_save", "gc_try1", "gc_try2"}

\* The positions of a call of git_commit.
GcPcs == {"gc_check", "gc_lock", "gc_try1", "gc_try2", "gc_unlock",
          "gc_push", "gc_raise"}

\* The revision a synchronisation has to store: the blob of the file at
\* HEAD and, with a template, the blob of the template.
ExpectedRevision(t) ==
  IF has_template[subproject(t)]
  THEN <<head[t], template[subproject(t)]>>
  ELSE <<head[t]>>

\* C1 - Write-lock mutual exclusion: no two operations are inside a with
\* block of the write lock of one repository at the same time, and an
\* operation that is about to save or commit a file holds the lock of that
\* file's repository.
C1_WriteLockExclusion ==
  \A p \in Procs :
    /\ AtWrite(p) => holds_lock(p, subproject(proc[p].t))
    /\ \A q \in Others(p) :
         subproject(proc[p].t) = subproject(proc[q].t)
           => ~(InSection(p) /\ InSection(q))

\* One request is about to save while the other waits for the lock.
C1_Witness ==
  \E p \in Procs : \E q \in Others(p) :
    /\ proc[p].pc = "uu_save" /\ holds_lock(p, "a")
    /\ proc[q].pc \in {"uu_lock", "ms_lock", "gc_lock"}
    /\ subproject(proc[q].t) = "a"

\* C2 - Lock release on every exit path: the write lock is held only by an
\* operation that is inside its with block; an operation that has left by
\* return (also 'unit not found') or by raise (also the second commit
\* failure) holds no lock, so the next operation can acquire it.
C2_LockReleasedOnExit ==
  \A sp \in SubProjects :
    git_lock[sp] # FreeLock
      => \E p \in Procs : /\ holds_lock(p, sp)
                          /\ InSection(p)
                          /\ subproject(proc[p].t) = sp

\* A merge raised on its second commit failure and is over, and the other
\* request has acquired the lock after it.
C2_Witness ==
  \E p \in Procs : \E q \in Others(p) :
    /\ proc[p].pc = "done" /\ proc[p].outcome = "raised"
    /\ proc[p].op = "merge_store"
    /\ holds_lock(q, "a")

\* Update_unit found no unit and returned, and the lock is free.
C2_WitnessNotFound ==
  \E p \in Procs :
    /\ proc[p].pc = "done" /\ proc[p].op = "update_unit" /\ ~proc[p].found
    /\ git_lock["a"] = FreeLock

\* C3 - Commit gating: a call of git_commit on a dirty file, when it is
\* over: with lazy commits and force_commit false it has returned false,
\* made no commit and left the file dirty; with force_commit true, and
\* returned, it has returned true, made exactly one commit, and the commit
\* holds everything (the file is no longer dirty).
C3_CommitGating ==
  \A p \in Procs :
    LET r == proc[p] IN
    (r.op = "git_commit" /\ r.pc = "done" /\ r.needs)
      => /\ (LAZY_COMMITS /\ ~r.force)
              => /\ r.outcome = "returned" /\ ~r.ret /\ r.made = 0
                 /\ git_needs_commit(r.t)
         /\ (r.force /\ r.outcome = "returned")
              => /\ r.ret /\ r.made = 1
                 /\ ~git_needs_commit(r.t)

\* A forced commit has committed what lazy commits had left in the file.
C3_Witness ==
  \E p \in Procs :
    /\ LAZY_COMMITS
    /\ proc[p].op = "git_commit" /\ proc[p].pc = "done" /\ proc[p].needs
    /\ proc[p].force /\ proc[p].made = 1

\* A lazy commit was deferred.
C3_WitnessDeferred ==
  \E p \in Procs :
    /\ LAZY_COMMITS
    /\ proc[p].op = "git_commit" /\ proc[p].pc = "done" /\ proc[p].needs
    /\ ~proc[p].force /\ git_needs_commit(proc[p].t)

\* C4 - Author separation: over any sequence of edits and uploads, no
\* commit holds entries written by someone else than the author the commit
\* is attributed to.
C4_AuthorSeparation == \A p \in Procs : ~proc[p].mixed

\* C4, while no operation has raised: the same, in the sequences in which
\* every commit that was attempted has succeeded by its second attempt.
C4_AuthorSeparationNoRaise == ~raised => C4_AuthorSeparation

\* C5 - Reconcile idempotence: a reconcile without force that follows a
\* reconcile of the same translation, the file and the template unchanged
\* in between, writes nothing: units, statistics, revision and dependent
\* rows stay as they are, and no audit entry or notification is made.
C5_ReconcileIdempotent ==
  [][\A t \in Trans, user \in Users \cup {None} :
       (reconcile(t, FALSE, user)
          /\ last_call.op = "update_from_blob" /\ last_call.t = t)
         => /\ UNCHANGED <<revision, units, stats, checks, suggestions,
                           comments>>
            /\ ~last_call'.wrote /\ ~last_call'.notified]_vars

\* A second reconcile without force has followed a real one of a
\* translation whose subproject has a template.
C5_Witness ==
  /\ last_call.op = "update_from_blob" /\ ~last_call.wrote
  /\ last_call.t = "a_cs" /\ has_template["a"]
  /\ units["a_cs"] # {}
  /\ revision["a_cs"] = ExpectedRevision("a_cs")

\* C6 - Revision after sync: right after a reconcile that did not take the
\* no-op path the stored revision is the blob hash of the file, joined
\* with the blob hash of the template when there is one; so when only the
\* template changes, every translation of the subproject that was in sync
\* is no longer up to date and its next reconcile without force is real.
C6_RevisionAfterSync ==
  /\ [](\A t \in Trans :
          (last_call.op = "update_from_blob" /\ last_call.t = t
             /\ last_call.wrote)
            => revision[t] = ExpectedRevision(t))
  /\ [][\A store \in SyncTemplates, t \in RepoA :
          (external_template_change("a", store)
             /\ revision[t] = ExpectedRevision(t))
            => ~up_to_date(t, FALSE)']_vars

\* A translation was synchronised with a template, the template alone has
\* changed, and the next reconcile was real.
C6_Witness ==
  /\ has_template["a"] /\ template["a"] # InitTemplate["a"]
  /\ head = InitStore
  /\ last_call.op = "update_from_blob" /\ last_call.wrote
  /\ revision[last_call.t] = <<head[last_call.t], template["a"]>>

\* C7 - Commit with sync: the step of git_commit that commits, when sync
\* is set, leaves as stored revision the blob hash of the file just
\* committed (with the template's), so that the translation is up to
\* date; every step of a call of git_commit that does not commit leaves
\* the stored revisions unchanged.
C7_CommitSyncsRevision ==
  [][\A p \in Procs :
       (proc[p].pc \in GcPcs /\ proc'[p] # proc[p])
         => IF proc'[p].made = proc[p].made + 1
            THEN proc[p].sync
                   => /\ head'[proc[p].t] = work[proc[p].t]
                      /\ revision'[proc[p].t] = ExpectedRevision(proc[p].t)'
                      /\ up_to_date(proc[p].t, FALSE)'
            ELSE revision' = revision]_vars

\* A commit with sync was made on a file whose stored revision it changed.
C7_Witness ==
  \E p \in Procs :
    /\ proc[p].pc = "gc_unlock" /\ proc[p].sync /\ proc[p].made = 1
    /\ revision[proc[p].t] = ExpectedRevision(proc[p].t)
    /\ head[proc[p].t] # InitStore[proc[p].t]

\* C8 - Dependent-record cleanup: after a reconcile that deletes the unit
\* with checksum c from a translation of language L, when no unit of
\* language L in the project references c no check, suggestion or comment
\* of (L, c) is left, and when no unit of any language references c no
\* source-level comment or check of c is left.
C8_DependentCleanup ==
  [][\A t \in Trans, c \in Keys :
       (c \in checksums(units[t]) /\ c \notin checksums(units'[t]))
         => /\ (\A t2 \in Trans : language(t2) = language(t)
                                    => c \notin checksums(units'[t2]))
                 => Row(language(t), c) \notin
                      (checks' \cup suggestions' \cup comments')
            /\ (\A t2 \in Trans : c \notin checksums(units'[t2]))
                 => Row(None, c) \notin (checks' \cup comments')]_vars

\* A reconcile has removed a row of its language and a source-level row.
C8_Witness ==
  /\ last_call.op = "update_from_blob" /\ last_call.deleted # {}
  /\ \E row \in last_call.removed : row.language = None
  /\ \E row \in last_call.removed : row.language = language(last_call.t)

\* C9 - Dependent-record survival: a reconcile removes a row only for a
\* checksum it deleted from its translation; it removes a row of a
\* language only when no unit of that language in the project references
\* the checksum any more, and a source-level row only when no unit of any
\* language does.
C9_DependentSurvival ==
  [][\A t \in Trans :
       units'[t] # units[t]
         => \A row \in (checks \cup suggestions \cup comments)
                         \ (checks' \cup suggestions' \cup comments') :
              /\ row.checksum \in checksums(units[t]) \ checksums(units'[t])
              /\ \A t2 \in Trans :
                   (row.language \in {None, language(t2)})
                     => row.checksum \notin checksums(units'[t2])]_vars

\* A reconcile has removed the rows of its language for a checksum while
\* the source-level row survives, another language still using it.
C9_Witness ==
  /\ last_call.op = "update_from_blob"
  /\ \E row \in last_call.removed : row.language = language(last_call.t)
  /\ \E c \in last_call.deleted :
       /\ Row(None, c) \in checks \cup comments
       /\ \E t2 \in Trans : c \in checksums(units[t2])

\* C10 - Lock extension monotonicity: whenever the holder of a lock that
\* has not expired touches it (update_lock), the expiry afterwards is not
\* earlier than the expiry before, and the holder is still that user;
\* this is so after an automatic and after an explicit lock.
C10_TouchNeverShortens ==
  [][\A t \in Trans, u \in Users :
       (do_update_lock(t, u) /\ lock_user[t] = u /\ lock_time[t] >= now)
         => (lock_time'[t] >= lock_time[t] /\ lock_user'[t] = u)]_vars

\* The soft lock of t has a holder and has not expired.
LiveLock(t) == lock_user[t] # None /\ lock_time[t] >= now

\* C11 - Touch semantics: update_lock by a user who holds a live lock
\* leaves that user the holder with the expiry at now + AUTO_LOCK_TIME; in
\* every other case (lock free, expired, or live and held by somebody
\* else), with AUTO_LOCK the user is the holder afterwards, with an
\* automatic lock, and without AUTO_LOCK nothing is acquired.
C11_TouchSemantics ==
  [][\A t \in Trans, u \in Users :
       do_update_lock(t, u)
         => IF LiveLock(t) /\ lock_user[t] = u
            THEN lock_user'[t] = u /\ lock_time'[t] = now + AUTO_LOCK_TIME
            ELSE IF AUTO_LOCK
            THEN lock_user'[t] = u /\ lock_time'[t] = now + AUTO_LOCK_TIME
            ELSE lock_user'[t] = IF LiveLock(t) THEN lock_user[t]
                                 ELSE None]_vars

\* C11, what update_lock does with a live lock of somebody else: it
\* extends that lock for its holder, with or without AUTO_LOCK; the other
\* cases are as C11 states them.
C11_TouchExtendsAnyLiveLock ==
  [][\A t \in Trans, u \in Users :
       do_update_lock(t, u)
         => IF LiveLock(t)
            THEN /\ lock_user'[t] = lock_user[t]
                 /\ lock_time'[t] = now + AUTO_LOCK_TIME
            ELSE IF AUTO_LOCK
            THEN lock_user'[t] = u /\ lock_time'[t] = now + AUTO_LOCK_TIME
            ELSE lock_user'[t] = None]_vars

\* A user has touched the live lock of somebody else, who still holds it.
C11_Witness ==
  /\ lock_call.op = "update_lock" /\ lock_call.user = "bob"
  /\ lock_user["a_cs"] = "alice"
  /\ lock_time["a_cs"] = now + AUTO_LOCK_TIME

\* The later of two times.
Later(a, b) == IF a >= b THEN a ELSE b

\* C12 - Acquire semantics: create_lock without a user leaves no holder;
\* create_lock for a user on a translation without holder sets the expiry
\* to now + LOCK_TIME if explicit, else now + AUTO_LOCK_TIME; create_lock
\* for a user on a live lock leaves as expiry the later of the old expiry
\* and now + duration, never an earlier one.
C12_AcquireSemantics ==
  [][\A t \in Trans, u \in Users \cup {None}, explicit \in BOOLEAN :
       do_create_lock(t, u, explicit)
         => LET seconds == IF explicit THEN LOCK_TIME ELSE AUTO_LOCK_TIME IN
            /\ u = None => lock_user'[t] = None
            /\ (u # None /\ lock_user[t] = None)
                 => lock_user'[t] = u /\ lock_time'[t] = now + seconds
            /\ (u # None /\ LiveLock(t))
                 => /\ lock_time'[t] = Later(lock_time[t], now + seconds)
                    /\ lock_time'[t] >= lock_time[t]]_vars

\* An automatic lock was asked for on a live explicit lock, which kept its
\* later expiry.
C12_Witness ==
  /\ lock_call.op = "create_lock" /\ lock_call.user # None
  /\ ~lock_call.explicit
  /\ lock_user["a_cs"] = lock_call.user
  /\ lock_time["a_cs"] > now + AUTO_LOCK_TIME

\* C13 - Lazy expiry: is_locked asked at a time later than the expiry
\* reports neither usr_lock nor own_lock, for every user, and clears the
\* holder; asked while there is no holder it reports the same and leaves
\* no holder; and a lock that is left alone is, from some time on, never
\* live again.
C13_LazyExpiry ==
  /\ [][\A t \in Trans, u \in Users \cup {None} :
          (do_is_locked(t, u) /\ (lock_user[t] = None \/ lock_time[t] < now))
            => /\ ~lock_call'.usr_lock /\ ~lock_call'.own_lock
               /\ lock_user'[t] = None]_vars
  /\ <>[](\A t \in Trans : ~LiveLock(t))

\* A check has cleared a lock that had expired.
C13_Witness ==
  /\ lock_call.op = "is_locked" /\ lock_call.user = "bob"
  /\ ~lock_call.usr_lock
  /\ lock_user["a_cs"] = None /\ lock_time["a_cs"] = now /\ now > 0

\* The step of process p merges store2 into the file of its translation.
Merges(p, store2, overwrite, add_fuzzy) ==
  /\ proc[p].pc = "ms_merge" /\ proc'[p].pc = "ms_pending"
  /\ proc'[p].store = merge_units(work[proc[p].t], store2, 1, overwrite,
                                  add_fuzzy)

\* Entry unit2 of an upload is one the merge uses for unit1 of the file.
Matches(unit2, unit1) ==
  unit2.id = unit1.id /\ is_translated(unit2) /\ ~isheader(unit2)

Uploaded(p) ==
  /\ proc[p].pc = "done" /\ proc[p].op = "merge_upload"
  /\ proc[p].outcome = "returned"

\* C16 - Upload dispatch: with the method empty or "fuzzy" merge_upload
\* runs merge_store on every candidate translation, with add_fuzzy true
\* exactly for "fuzzy", returns the OR of their results and records no
\* suggestion; with any other method it runs merge_suggestions on the
\* translation of the request only and merge_store on none.
C16_UploadDispatch ==
  /\ [](\A p \in Procs :
          Uploaded(p)
            => LET r == proc[p] IN
               IF r.method \in {"", "fuzzy"}
               THEN /\ {c.t : c \in r.calls} = translations(r.origin)
                    /\ r.ret = (\E c \in r.calls : c.ret)
                    /\ r.suggested = {}
               ELSE /\ r.calls = {}
                    /\ r.suggested = {r.origin})
  /\ [][\A p \in Procs :
          LET r == proc[p] IN
          r.op = "merge_upload"
            => /\ r.pc = "ms_merge"
                    => /\ r.method \in {"", "fuzzy"}
                       /\ proc'[p].store =
                            merge_units(work[r.t], r.upload, 1, r.overwrite,
                                        r.method = "fuzzy")
               /\ r.method \in {"", "fuzzy"} => suggestions' = suggestions]_vars

\* A merging upload returned true after one translation took a text of the
\* file and another took none.
C16_Witness ==
  \E p \in Procs :
    /\ Uploaded(p) /\ proc[p].method = "fuzzy" /\ proc[p].ret
    /\ \E c \in proc[p].calls : c.ret
    /\ \E c \in proc[p].calls : ~c.ret

\* An upload of suggestions returned.
C16_WitnessSuggest ==
  \E p \in Procs :
    /\ Uploaded(p) /\ proc[p].method = "suggest"
    /\ proc[p].suggested = {proc[p].origin} /\ suggestions # {}

\* The translations an upload for t may touch, as the statement lists them.
Scope(t) ==
  {o \in Trans :
     /\ language(o) = language(t)
     /\ project[subproject(o)] = project[subproject(t)]
     /\ o = t \/ allow_translation_propagation[subproject(o)]}

\* C17 - Propagation scope: a merging upload runs merge_store on exactly
\* the translations of the language in the project that are the
\* translation of the request or belong to a subproject that propagates
\* translations, the translation of the request included even when its
\* subproject does not propagate; no step of the upload changes the file,
\* the commits, the revision or the units of any other translation.
C17_PropagationScope ==
  /\ [](\A p \in Procs :
          Uploaded(p) /\ proc[p].method \in {"", "fuzzy"}
            => /\ {c.t : c \in proc[p].calls} = Scope(proc[p].origin)
               /\ proc[p].origin \in {c.t : c \in proc[p].calls})
  /\ [][\A p \in Procs :
          proc[p].op = "merge_upload" /\ proc'[p] # proc[p]
            => \A o \in Trans \ Scope(proc[p].origin) :
                 /\ work'[o] = work[o] /\ head'[o] = head[o]
                 /\ revision'[o] = revision[o] /\ units'[o] = units[o]]_vars

\* An upload for "a_cs", whose subproject does not propagate, changed the
\* files of "a_cs" and of its sibling "b_cs" and committed both.
C17_Witness ==
  \E p \in Procs :
    /\ Uploaded(p) /\ proc[p].origin = "a_cs"
    /\ ~allow_translation_propagation["a"]
    /\ head["a_cs"] # UploadTargets["a_cs"]
    /\ head["b_cs"] # UploadTargets["b_cs"]
    /\ head["a_de"] = UploadTargets["a_de"]

\* An upload for "a_cs" changed its file while "b_cs", in another project
\* or not propagating, could have taken the text and was left alone.
C17_WitnessOutside ==
  \E p \in Procs :
    /\ Uploaded(p) /\ proc[p].origin = "a_cs"
    /\ proc[p].upload = <<Entry("k1", 2, FALSE)>> /\ proc[p].overwrite
    /\ "b_cs" \notin Scope("a_cs")
    /\ head["a_cs"] # UploadTargets["a_cs"]
    /\ work["b_cs"] = UploadTargets["b_cs"]

\* The translated entries of a store that are not its header.
Suggestible(store) ==
  {i \in DOMAIN store : is_translated(store[i]) /\ ~isheader(store[i])}

\* C18 - Suggestion merge: merge_suggestions on a store with k translated
\* non-header entries adds exactly k rows to the suggestions each time it
\* is called, whatever rows and units exist, returns true exactly when
\* k > 0, and leaves the files, the commits, the write locks, the units,
\* their counts and the revisions as they are.
C18_SuggestionMerge ==
  [][\A p \in Procs :
       proc[p].pc = "mu_suggest" /\ proc'[p].pc = "done"
         => LET r == proc[p]
                k == Cardinality(Suggestible(r.upload))
                new == suggestions' \ suggestions
            IN  /\ suggestions \subseteq suggestions'
                /\ Cardinality(new) = k
                /\ \A i \in Suggestible(r.upload) :
                     \E row \in new : /\ row.checksum = r.upload[i].id
                                      /\ row.target = r.upload[i].target
                                      /\ row.language = language(r.origin)
                                      /\ row.user = r.user
                /\ proc'[p].ret = (k > 0)
                /\ UNCHANGED <<work, head, git_lock, units, stats, revision,
                               checks, comments>>]_vars

\* The same file with two translated entries was uploaded twice by the same
\* user: the table holds two rows for each entry.
C18_Witness ==
  \E p \in Procs :
    /\ Uploaded(p) /\ proc[p].method = "suggest" /\ proc[p].ret
    /\ requests = 2
    /\ Cardinality(suggestions) = 4
    /\ \A row \in suggestions :
         /\ "pk" \in DOMAIN row
         /\ row.language = "cs" /\ row.user = "alice"
         /\ Cardinality({o \in suggestions : o.checksum = row.checksum}) = 2

\* A suggestion was recorded for "k2" in a language whose translation has
\* no such unit, next to the row the table held before.
C18_WitnessNoUnit ==
  /\ Row("cs", "k1") \in suggestions
  /\ \E row \in suggestions : row.language = "de" /\ row.checksum = "k2"
  /\ "k2" \notin checksums(units["a_de"])

\* C19 - No-change upload: when the merge changes no unit of any
\* translation it runs on, the upload creates no commit, returns false and
\* is reported as holding no new strings, whatever state the translation
\* was in before, earlier lazy edits still uncommitted included.
C19_NoChangeUpload ==
  \A p \in Procs :
    (/\ Uploaded(p) /\ proc[p].method \in {"", "fuzzy"}
     /\ \A c \in proc[p].calls : ~c.changed)
      => /\ proc[p].made = 0
         /\ ~proc[p].ret
         /\ message(proc[p]) = "There were no new strings in uploaded file."

\* The same without lazy commits, when no edit is left uncommitted.
C19_NoChangeUploadEager ==
  \A p \in Procs :
    (/\ Uploaded(p) /\ proc[p].method \in {"", "fuzzy"}
     /\ \A c \in proc[p].calls : ~c.changed
     /\ ~LAZY_COMMITS)
      => /\ proc[p].made = 0
         /\ ~proc[p].ret
         /\ message(proc[p]) = "There were no new strings in uploaded file."

\* C20 - Retry exactly once: when the commit inside git_commit fails,
\* git_commit attempts it exactly one more time; a second attempt that
\* succeeds creates exactly one commit and git_commit returns true, one
\* that fails goes on to the caller as an exception with no commit
\* created, and no call makes more than two attempts.
C20_RetryExactlyOnce ==
  /\ [](\A p \in Procs :
          LET r == proc[p] IN
          /\ r.attempts <= 2
          /\ r.pc = "gc_try1" => r.attempts = 0
          /\ r.pc = "gc_try2" => r.attempts = 1
          /\ r.pc = "gc_raise" => r.attempts = 2
          /\ r.pc \in {"gc_unlock", "gc_push"} => r.attempts \in {1, 2})
  /\ [][\A p \in Procs :
          LET r == proc[p]
              n == proc'[p]
          IN  n # r
                => /\ r.pc = "gc_try1" => n.pc \in {"gc_unlock", "gc_try2"}
                   /\ r.pc = "gc_try2" => n.pc \in {"gc_unlock", "gc_raise"}
                   /\ r.pc \in {"gc_try1", "gc_try2"} /\ n.pc = "gc_unlock"
                        => /\ n.made = r.made + 1
                           /\ n.attempts = r.attempts + 1
                           /\ head' = [head EXCEPT ![r.t] = work[r.t]]
                   /\ r.pc \in {"gc_try1", "gc_try2"} /\ n.pc # "gc_unlock"
                        => /\ n.made = r.made /\ head' = head
                           /\ n.attempts = r.attempts + 1
                   /\ r.pc = "gc_unlock"
                        => n.pc = "gc_push" /\ n.made = r.made /\ head' = head
                   /\ r.pc = "gc_push"
                        => n.gc_ret /\ n.made = r.made /\ head' = head
                   /\ r.pc = "gc_raise"
                        => /\ raised'
                           /\ n.pc \in {"outer_raise", "done"}
                           /\ n.pc = "done" => n.outcome = "raised"
                           /\ n.made = r.made /\ head' = head]_vars

\* The second attempt of a call succeeded: one commit, made at attempt two.
C20_Witness ==
  \E p \in Procs :
    /\ proc[p].pc = "gc_unlock" /\ proc[p].attempts = 2 /\ proc[p].made = 1
    /\ ~git_needs_commit(proc[p].t)

\* Both attempts failed: the request ended by the exception, no commit was
\* made and the file is as dirty as it was.
C20_WitnessRaised ==
  \E p \in Procs :
    /\ proc[p].pc = "done" /\ proc[p].outcome = "raised"
    /\ proc[p].attempts = 2 /\ proc[p].made = 0
    /\ git_needs_commit(proc[p].t)

\* C21 - Clean file short-circuit: git_commit called on a file with no
\* uncommitted change returns false, whatever force_commit, sync and
\* skip_push are, without taking the write lock, creating a commit,
\* changing the stored revision or pushing.
C21_CleanShortCircuit ==
  [][\A p \in Procs :
       LET r == proc[p]
           n == proc'[p]
       IN  r.op = "git_commit" /\ r.pc = "gc_check" /\ n # r
             /\ ~git_needs_commit(r.t)
             => /\ n.pc = "done" /\ n.outcome = "returned" /\ ~n.ret
                /\ n.made = r.made /\ n.attempts = 0 /\ ~n.pushed
                /\ UNCHANGED <<git_lock, head, work, revision>>]_vars

\* A forced git_commit with sync, free to push, returned false on the
\* clean file of a project that pushes on commit.
C21_Witness ==
  \E p \in Procs :
    /\ proc[p].op = "git_commit" /\ proc[p].pc = "done"
    /\ proc[p].force /\ proc[p].sync /\ ~proc[p].skip_push
    /\ push_on_commit /\ ~proc[p].needs /\ ~proc[p].ret

\* git_commit of process p is at lines 785-786 and calls do_push.
Pushes(p) ==
  proc[p].pc = "gc_push" /\ push_on_commit /\ ~proc[p].skip_push

\* C22 - Push after commit: git_commit pushes only when it has created a
\* commit, the project pushes on commit and skip_push is false, and when
\* the push starts the operation that commits, update_unit and merge_store
\* included, does not hold the write lock.
C22_PushAfterCommit ==
  /\ [](\A p \in Procs :
          Pushes(p) => /\ proc[p].attempts \in {1, 2}
                       /\ ~holds_lock(p, subproject(proc[p].t)))
  /\ [][\A p \in Procs :
          proc'[p].pushed /\ ~proc[p].pushed => Pushes(p)]_vars

\* The same for the with block of git_commit alone: at the push it has
\* been left, and the lock is free in a direct call and held once, by the
\* with block of update_unit or merge_store, in a call they make.
C22_PushAfterOwnBlock ==
  /\ [](\A p \in Procs :
          Pushes(p)
            => /\ proc[p].attempts \in {1, 2}
               /\ git_lock[subproject(proc[p].t)] =
                    IF proc[p].op = "git_commit" THEN FreeLock
                    ELSE [holder |-> p, depth |-> 1])
  /\ [][\A p \in Procs :
          proc'[p].pushed /\ ~proc[p].pushed => Pushes(p)]_vars

\* The file, commits, revision and units of translation t stay as they are.
Untouched(t) ==
  /\ work'[t] = work[t] /\ head'[t] = head[t]
  /\ revision'[t] = revision[t] /\ units'[t] = units[t]

\* C23 - Partial success of propagation: when merge_store fails on one of
\* the translations of an upload, the translations merged before keep their
\* merged file and their commit, the ones not yet reached are left as they
\* were, and the view gets one failure, not a result per translation.
C23_PartialPropagation ==
  /\ [](\A p \in Procs :
          LET r == proc[p] IN
          r.op = "merge_upload" /\ r.pc = "done" /\ r.outcome = "raised"
            => /\ message(r) = "File content merge failed"
               /\ ~r.ret
               /\ \A c \in r.calls :
                    /\ ~git_needs_commit(c.t)
                    /\ revision[c.t] = get_git_blob_hash(head, c.t)
                    /\ c.ret => head[c.t] # UploadTargets[c.t]
               /\ \A t \in r.todo : head[t] = UploadTargets[t])
  /\ [][\A p \in Procs :
          LET r == proc[p]
              n == proc'[p]
          IN  r.op = "merge_upload" /\ n # r
                => /\ \A c \in r.calls : Untouched(c.t)
                   /\ \A t \in r.todo : Untouched(t)
                   /\ r.pc = "outer_raise"
                        => /\ n.pc = "done" /\ n.outcome = "raised"
                           /\ n.todo = r.todo /\ n.calls = r.calls]_vars

\* The upload failed on its second translation: the first one has taken a
\* text of the file and holds it committed.
C23_Witness ==
  \E p \in Procs :
    /\ proc[p].op = "merge_upload" /\ proc[p].pc = "done"
    /\ proc[p].outcome = "raised"
    /\ \E c \in proc[p].calls :
         /\ c.ret /\ c.t # proc[p].t
         /\ head[c.t] # UploadTargets[c.t] /\ head[c.t] = work[c.t]
    /\ git_needs_commit(proc[p].t)

\* The upload failed on its first translation: the second one was never
\* reached and could have taken the text.
C23_WitnessNotReached ==
  \E p \in Procs :
    /\ proc[p].op = "merge_upload" /\ proc[p].pc = "done"
    /\ proc[p].outcome = "raised"
    /\ proc[p].upload = <<Entry("k1", 2, FALSE)>> /\ proc[p].overwrite
    /\ proc[p].todo # {} /\ proc[p].calls = {}
    /\ \A t \in proc[p].todo : work[t] = UploadTargets[t]

\* No request is under way.
AtRest == \A p \in Procs : proc[p].pc = "idle"

C25_NewStringNotification ==
  [][\A t \in Trans, force \in BOOLEAN, user \in Users \cup {None} :
       reconcile(t, force, user)
         => LET created == {u \in units'[t] :
                              u.checksum \notin checksums(units[t])}
            IN  /\ last_call'.notified
                     = (/\ ~up_to_date(t, force)
                        /\ \E u \in created : ~u.translated)
                /\ (/\ units[t] = {}
                    /\ ~has_template[subproject(t)]
                    /\ \E k \in Keys : work[t] = <<E0(k)>>)
                     => /\ Cardinality(units'[t]) = 1
                        /\ \A u \in units'[t] : ~u.translated
                        /\ stats'[t].total = 1
                        /\ stats'[t].translated = 0
                        /\ last_call'.notified]_vars

\* The file with the single untranslated unit "k1" was synchronised into
\* the empty index of "a_de", and the subscribers were notified.
C25_Witness ==
  /\ last_call.op = "update_from_blob" /\ last_call.t = "a_de"
  /\ last_call.notified
  /\ work["a_de"] = <<E0("k1")>>
  /\ units["a_de"] = {update_from_unit("k1", 1, {E0("k1")})}
  /\ stats["a_de"] = [total |-> 1, fuzzy |-> 0, translated |-> 0]

\* A pass created the translated unit "k1" only and notified nobody.
C25_WitnessTranslated ==
  /\ last_call.op = "update_from_blob" /\ last_call.wrote
  /\ ~last_call.notified
  /\ \E u \in units[last_call.t] : u.translated

\* The entries of a store that are not its header, in the order of the
\* store, and the entry of a store with a given id, if any.
Translatable(store) ==
  [i \in 1..Cardinality({j \in DOMAIN store : store[j].id # HeaderKey}) |->
     store[CHOOSE j \in DOMAIN store :
             /\ store[j].id # HeaderKey
             /\ Cardinality({m \in 1..j : store[m].id # HeaderKey}) = i]]

\* C26 - Reconciled unit set: after an update_from_blob that did not return
\* on the cheap path the units are exactly one per translatable entry
\* iterated, the template's when the subproject has one, else the file's;
\* units of any other checksum are gone; positions count the translatable
\* entries from 1 in their order; and with a template an entry whose id
\* the file lacks still has its unit, with an empty target.
C26_ReconciledUnitSet ==
  [][\A t \in Trans, force \in BOOLEAN, user \in Users \cup {None} :
       reconcile(t, force, user) /\ ~up_to_date(t, force)
         => LET sp == subproject(t)
                entries == Translatable(IF has_template[sp] THEN template[sp]
                                        ELSE work[t])
                text(k) ==
                  IF \E j \in DOMAIN work[t] : work[t][j].id = k
                  THEN work[t][CHOOSE j \in DOMAIN work[t] :
                                 work[t][j].id = k]
                  ELSE E0(k)
            IN  /\ Cardinality(units'[t]) = Len(entries)
                /\ \A i \in DOMAIN entries :
                     \E u \in units'[t] :
                       /\ u.checksum = entries[i].id
                       /\ u.position = i
                       /\ u.target = text(entries[i].id).target
                       /\ u.fuzzy = text(entries[i].id).fuzzy]_vars

\* With a template of two entries, a file that lacks "k2" was synchronised
\* over units of both: "k2" has its unit at position 2, with no text.
C26_Witness ==
  /\ last_call.op = "update_from_blob" /\ last_call.wrote
  /\ last_call.t = "a_cs" /\ has_template["a"]
  /\ template["a"] = InitTemplate["a"]
  /\ work["a_cs"] = <<Header, Entry("k1", 1, FALSE)>>
  /\ \E u \in units["a_cs"] :
       u.checksum = "k2" /\ u.position = 2 /\ u.target = 0
  /\ \E u \in units["a_cs"] :
       u.checksum = "k1" /\ u.position = 1 /\ u.target = 1

\* Without a template, a file that holds "k2" only was synchronised over
\* units of "k1" and "k2": the unit of "k1" is gone.
C26_WitnessDeleted ==
  /\ last_call.op = "update_from_blob" /\ last_call.wrote
  /\ last_call.t = "a_cs" /\ ~has_template["a"]
  /\ last_call.deleted = {"k1"}
  /\ checksums(units["a_cs"]) = {"k2"}

\* How far a call of merge_store has come: the lock, the merge in memory,
\* commit_pending, save, the forced commit, check_sync, the end of the with
\* block, the return or the exception.
merge_stage(r) ==
  LET in_commit == r.pc \in {"gc_check", "gc_lock", "gc_try1", "gc_try2",
                             "gc_unlock", "gc_push", "gc_raise"}
  IN  CASE r.pc = "ms_lock" -> 0
        [] r.pc = "ms_merge" -> 1
        [] r.pc = "ms_pending" \/ (in_commit /\ r.ret_to = "ms_save") -> 2
        [] r.pc = "ms_save" -> 3
        [] in_commit /\ r.ret_to = "ms_sync" -> 4
        [] r.pc = "ms_sync" -> 5
        [] r.pc = "ms_unlock" -> 6
        [] OTHER -> 7

\* The effects of merge_store come in the order merge in memory, commit of
\* the pending change of another author, save, forced commit, re-sync: the
\* stages never go back, the file changes at the save alone and becomes
\* the merged store, a commit of commit_pending is made for the last
\* author from the file the save has not written yet, and the units change
\* at the re-sync alone.
MergeOrder ==
  \A p \in Procs :
    LET r == proc[p]
        t == r.t
    IN  (r.op = "merge_store" /\ proc'[p].op = "merge_store")
          => /\ merge_stage(proc'[p]) >= merge_stage(r)
             /\ proc'[p].store # r.store => merge_stage(r) = 1
             /\ work' # work
                  => merge_stage(r) = 3 /\ work' = [work EXCEPT ![t] = r.store]
             /\ head' # head
                  => /\ merge_stage(r) \in {2, 4}
                     /\ head' = [head EXCEPT ![t] = work[t]]
                     /\ merge_stage(r) = 2
                          => /\ r.gc_author = get_last_author(t)
                             /\ r.gc_author # r.author
             /\ units' # units => merge_stage(r) = 5

\* The translation a merge_store has left when it returned normally: the
\* file is committed, the revision is the hash of the blob, the units are
\* those of the file and the counts those of the units.
MergePostState ==
  \A p \in Procs :
    LET r == proc[p]
        t == r.t
    IN  (r.op = "merge_store" /\ r.pc = "done" /\ r.outcome = "returned")
          => /\ ~git_needs_commit(t)
             /\ revision[t] = get_git_blob_hash(head, t)
             /\ units[t] = synced_units(work[t], subproject(t))
             /\ stats[t] = counted(units[t])

\* C27 - Merge sequencing and post-state: merge_store merges in memory,
\* commits the pending change of a prior author without any merged
\* content, saves, commits with force and re-syncs, in this order; and when
\* it has returned normally the file has no uncommitted change, the stored
\* revision is the current blob hash, and the units and the counts are
\* those of the saved file.
C27_MergeSequencing == [][MergeOrder]_vars /\ []MergePostState

\* The order of the effects alone.
C27_MergeOrder == [][MergeOrder]_vars

\* The post-state of the calls whose forced commit was made (ret is True).
C27_PostStateAfterCommit ==
  \A p \in Procs :
    LET r == proc[p]
        t == r.t
    IN  (r.op = "merge_store" /\ r.pc = "done" /\ r.outcome = "returned"
           /\ r.ret)
          => /\ ~git_needs_commit(t)
             /\ revision[t] = get_git_blob_hash(head, t)
             /\ units[t] = synced_units(work[t], subproject(t))
             /\ stats[t] = counted(units[t])

\* What a call of the pipeline leaves of a translation.
RepoState(t) ==
  [file |-> work[t], committed |-> head[t], revision |-> revision[t],
   units |-> units[t], stats |-> stats[t], writer |-> writer[t],
   last_change |-> last_change[t]]

\* The same call on the same repository state has the same outcome
\* whatever the soft lock is: the call on "a_cs", whose soft lock is free,
\* held by the caller, held by another user or expired, and is used while
\* the call runs, ends as the call on "b_cs", whose soft lock is free.
SameOutcome ==
  (/\ proc["p1"].pc = "done" /\ proc["p2"].pc = "done"
   /\ proc["p1"].store = proc["p2"].store)
    => /\ proc["p2"] = [proc["p1"] EXCEPT !.t = "b_cs"]
       /\ RepoState("a_cs") = RepoState("b_cs")

\* A call of the soft lock leaves the write locks, the files, the commits,
\* the units and the stored revisions as they are.
LockCallFrame ==
  lock_call' # lock_call
    => UNCHANGED <<git_lock, work, head, units, stats, revision, writer,
                   last_change, proc>>

C28_WitnessTouched ==
  /\ proc["p1"].pc = "done" /\ proc["p2"].pc = "done"
  /\ proc["p1"].op = "update_unit" /\ proc["p1"].ret
  /\ lock_call.op = "update_lock" /\ lock_call.user = proc["p1"].user
  /\ lock_user["a_cs"] = proc["p1"].user

\* C29 - Stats after sync: right after an update_from_blob that did not
\* return on the cheap path, total is the number of units of the
\* translation, translated the number of its units flagged translated and
\* fuzzy the number flagged fuzzy, so that both lie between 0 and total and
\* translated plus get_non_translated() is total.
C29_StatsAfterSync ==
  [][\A t \in Trans, force \in BOOLEAN, user \in Users \cup {None} :
       reconcile(t, force, user) /\ ~up_to_date(t, force)
         => LET st == stats'[t]
                flagged(f) == {c \in checksums(units'[t]) :
                                 \E u \in units'[t] : u.checksum = c /\ u[f]}
            IN  /\ st.total = Cardinality(checksums(units'[t]))
                /\ st.translated = Cardinality(flagged("translated"))
                /\ st.fuzzy = Cardinality(flagged("fuzzy"))
                /\ 0 <= st.translated /\ st.translated <= st.total
                /\ 0 <= st.fuzzy /\ st.fuzzy <= st.total
                /\ 0 <= get_non_translated(st)
                /\ st.translated + get_non_translated(st) = st.total]_vars

\* A file of one fuzzy and one translated entry was synchronised: two
\* units, one translated, one fuzzy, one not translated.
C29_Witness ==
  /\ last_call.op = "update_from_blob" /\ last_call.wrote
  /\ last_call.t = "a_cs"
  /\ stats["a_cs"] = [total |-> 2, fuzzy |-> 1, translated |-> 1]
  /\ get_non_translated(stats["a_cs"]) = 1
  /\ \E u \in units["a_cs"] : u.fuzzy /\ ~u.translated /\ u.target # 0

\* What an update_from_blob that wrote has persisted when it ends: the
\* units of the file it loaded, their counts, the hash of the blob and the
\* entry of the audit trail.
Persisted(p) ==
  LET r == proc[p]
      t == r.t
  IN  /\ units[t] = synced_units(r.store, subproject(t))
      /\ stats[t] = counted(units[t])
      /\ revision[t] = get_git_blob_hash(head, t)
      /\ last_call.op = "update_from_blob" /\ last_call.t = t
      /\ last_call.wrote

\* C30 - Notification failure isolation: an update_from_blob that has
\* written always ends by returning, a failing notification included, with
\* units, counts, revision and audit entry persisted, and with every
\* subscriber of the new string notified but those whose own notification
\* failed.
C30_NotificationIsolation ==
  \A p \in Procs :
    LET r == proc[p]
        subscribers == subscribed_new_string(project[subproject(r.t)],
                                             language(r.t))
    IN  (r.op = "update_from_blob" /\ r.pc = "done" /\ r.store # <<>>)
          => /\ r.outcome = "returned"
             /\ Persisted(p)
             /\ last_call.notified
                  => Cardinality(subscribers \ r.notified) <= 1
                       /\ (~raised => r.notified = subscribers)

\* The part that holds: whatever the notifications do, the units, counts,
\* revision and audit entry are persisted before the first notification.
C30_PersistedBeforeNotify ==
  \A p \in Procs :
    (/\ proc[p].op = "update_from_blob" /\ proc[p].store # <<>>
     /\ proc[p].pc \in {"ufb_notify", "done"})
      => Persisted(p)

\* The soft lock of a translation is alive: somebody holds it and it has
\* not run out.
LiveSoftLock(t) == lock_user[t] # None /\ lock_time[t] >= now

\* C31 - Upload gated by the soft lock: the upload view denies the request
\* exactly when the subproject is locked, when a user other than the
\* uploader holds a live soft lock, or when the request is not a POST; a
\* denied request changes no file, commit, unit or suggestion; the
\* uploader's own live lock does not deny the upload; and a lock found
\* expired is cleared and does not deny it.
C31_UploadGate ==
  [][\A p \in Procs :
       LET r == proc'[p]
           t == r.origin
           blocked == \/ prj_locked[subproject(t)]
                      \/ LiveSoftLock(t) /\ lock_user[t] # r.user
                      \/ r.request_method # "POST"
       IN  /\ (proc[p].pc = "idle" /\ r.op = "merge_upload")
                => /\ (r.outcome = "denied") = blocked
                   /\ ~blocked => r.pc \in {"mu_next", "mu_suggest"}
                   /\ (lock_user[t] # None /\ ~LiveSoftLock(t))
                        => lock_user'[t] = None
                   /\ LiveSoftLock(t)
                        => /\ lock_user'[t] = lock_user[t]
                           /\ lock_time'[t] = lock_time[t]
           /\ (r.outcome = "denied" \/ proc[p].outcome = "denied")
                => UNCHANGED <<work, head, units, stats, revision,
                               suggestions>>]_vars

\* alice has uploaded and merged a file under her own live soft lock.
C31_Witness ==
  /\ proc["p1"].op = "merge_upload" /\ proc["p1"].pc = "done"
  /\ proc["p1"].outcome = "returned" /\ proc["p1"].ret
  /\ proc["p1"].user = "alice"
  /\ lock_user["a_cs"] = "alice" /\ LiveSoftLock("a_cs")
  /\ work["a_cs"] # UploadTargets["a_cs"]

\* The POST of alice was denied because bob holds a live soft lock.
C31_WitnessDenied ==
  /\ proc["p1"].op = "merge_upload" /\ proc["p1"].outcome = "denied"
  /\ proc["p1"].request_method = "POST" /\ proc["p1"].user = "alice"
  /\ ~prj_locked["a"]
  /\ lock_user["a_cs"] = "bob" /\ LiveSoftLock("a_cs")

\* The suggestions of alice were recorded after the view had found the
\* lock of bob expired and cleared it.
C31_WitnessExpired ==
  /\ proc["p1"].op = "merge_upload" /\ proc["p1"].pc = "done"
  /\ proc["p1"].method = "suggest" /\ proc["p1"].user = "alice"
  /\ suggestions # {}
  /\ lock_user["a_cs"] = None /\ lock_time["a_cs"] = now

\* Two calls of git_commit are being served on the same file.
TwoCommits(p, q) ==
  /\ proc[p].op = "git_commit" /\ proc[q].op = "git_commit"
  /\ proc[p].t = proc[q].t

\* Between them two calls of git_commit on one dirty file make one commit
\* at most.
C32_AtMostOneCommit ==
  \A p \in Procs : \A q \in Others(p) :
    TwoCommits(p, q) => proc[p].made + proc[q].made <= 1

\* C32 - Atomic dirty check and commit: of two calls of git_commit on the
\* same dirty file, none is about to commit a file that has nothing left
\* to commit because the other call committed it after the dirty check,
\* none has raised over such a file, and one commit at most is made.
C32_AtomicCheckAndCommit ==
  \A p \in Procs : \A q \in Others(p) :
    TwoCommits(p, q)
      => /\ proc[p].pc \in {"gc_try1", "gc_try2"}
              => git_needs_commit(proc[p].t)
         /\ (proc[p].pc = "done" /\ proc[p].outcome = "raised")
              => git_needs_commit(proc[p].t)
         /\ proc[p].made + proc[q].made <= 1

\* An update_unit or a merge_store that is inside its with block holds the
\* write lock of its repository, at any depth of nesting, and no other
\* process is inside a with block of that repository or about to write.
NestedHeld ==
  \A p \in Procs :
    LET sp == subproject(proc[p].t) IN
    (proc[p].op \in {"update_unit", "merge_store"} /\ InSection(p))
      => /\ holds_lock(p, sp)
         /\ git_lock[sp].depth >= 1
         /\ proc[p].pc \in {"gc_try1", "gc_try2", "gc_unlock"}
              => git_lock[sp].depth = 2
         /\ \A q \in Others(p) :
              subproject(proc[q].t) = sp => ~InSection(q) /\ ~AtWrite(q)

C33_WitnessNested ==
  \E p \in Procs :
    /\ proc[p].op = "update_unit" /\ proc[p].pc = "gc_try1"
    /\ holds_lock(p, "a") /\ git_lock["a"].depth = 2

====
